---------------------------- MODULE Spec2Model ----------------------------
(***************************************************************************)
(* A model of the rules engine of the falling-block game: the seven-bag    *)
(* randomizer, the lookahead queue, the hold slot, piece geometry and wall  *)
(* kicks, collision checking, board locking and compaction, the gravity /   *)
(* lock-delay machine, the phase machine and the session orchestrator      *)
(* (createGameLoop).                                                        *)
(*                                                                         *)
(* Conventions.  Arrays are sequences: the element the code calls a[i] is  *)
(* a[i + 1] here.  A value that may be null (active piece, ghost) is a     *)
(* sequence of length 0 (null) or 1.  A nullable piece kind is the string  *)
(* "null".  A seed string is the sequence of its UTF-16 code units.  A     *)
(* 32-bit unsigned integer is a pair <<hi, lo>> of 16-bit halves, because   *)
(* the randomizer's arithmetic wraps at 2^32.                               *)
(***************************************************************************)
EXTENDS Integers, Sequences, FiniteSets, TLC

(***************************************************************************)
(* 32-bit unsigned arithmetic (Math.imul, ^, |, >>>, + followed by >>> 0).  *)
(***************************************************************************)
W16 == 65536

RECURSIVE BitXor(_, _, _)
BitXor(a, b, n) ==
  IF n = 0 THEN 0
  ELSE ((a + b) % 2) + 2 * BitXor(a \div 2, b \div 2, n - 1)

RECURSIVE BitOr(_, _, _)
BitOr(a, b, n) ==
  IF n = 0 THEN 0
  ELSE (IF a % 2 = 1 \/ b % 2 = 1 THEN 1 ELSE 0)
       + 2 * BitOr(a \div 2, b \div 2, n - 1)

U32(hi, lo) == <<hi, lo>>

Xor32(x, y) == <<BitXor(x[1], y[1], 16), BitXor(x[2], y[2], 16)>>

Or32(x, y) == <<BitOr(x[1], y[1], 16), BitOr(x[2], y[2], 16)>>

Add32(x, y) ==
  LET lo == x[2] + y[2]
  IN  <<(x[1] + y[1] + (lo \div W16)) % W16, lo % W16>>

\* x >>> n for 0 < n < 16
Shr32(x, n) ==
  LET p == 2 ^ n
      q == 2 ^ (16 - n)
  IN  <<x[1] \div p, (x[2] \div p) + (x[1] % p) * q>>

\* the full 32-bit product of two 16-bit numbers, computed in 8-bit steps so
\* that no intermediate value exceeds 2^31
Mul16(a, b) ==
  LET p  == (a \div 256) * b
      q  == (a % 256) * b
      lo == (p % 256) * 256 + (q % W16)
  IN  <<(p \div 256) + (q \div W16) + (lo \div W16), lo % W16>>

\* Math.imul(x, y) >>> 0
Imul32(x, y) ==
  LET ll == Mul16(x[2], y[2])
      hl == Mul16(x[1], y[2])
      lh == Mul16(x[2], y[1])
  IN  <<(ll[1] + hl[2] + lh[2]) % W16, ll[2]>>

(***************************************************************************)
(* rng: the seven-bag randomizer.                                          *)
(***************************************************************************)
TETROMINO_TYPES == <<"I", "O", "T", "S", "Z", "J", "L">>

PieceKinds == {TETROMINO_TYPES[i] : i \in 1..Len(TETROMINO_TYPES)}

FNV_OFFSET == U32(33052, 40389)    \* 0x811c9dc5
FNV_PRIME == U32(256, 403)         \* 0x01000193
PRNG_INCREMENT == U32(27947, 31221) \* 0x6d2b79f5

\* the for loop of hashSeed.  hash[1] is never negative: the test only makes
\* the evaluator finish one round before it starts the next
RECURSIVE hashLoop(_, _, _)
hashLoop(hash, baseSeed, i) ==
  IF hash[1] < 0 \/ i > Len(baseSeed) THEN hash
  ELSE hashLoop(Imul32(Xor32(hash, U32(0, baseSeed[i])), FNV_PRIME),
                baseSeed, i + 1)

hashSeed(baseSeed, bagIndex) ==
  hashLoop(Xor32(FNV_OFFSET, U32(0, bagIndex)), baseSeed, 1)

\* one call of the closure createPrng returns: the new closure state and the
\* 32-bit numerator of the fraction it returns (value / 2^32).  prngMix1 and
\* prngMix2 are its two multiply-and-xor statements, prngResult its return
prngResult(s, t) == [state |-> s, value |-> Xor32(t, Shr32(t, 14))]

prngMix2(s, t) ==
  prngResult(s, Xor32(t, Add32(t, Imul32(Xor32(t, Shr32(t, 7)),
                                         Or32(U32(0, 61), t)))))

prngMix1(s) ==
  prngMix2(s, Imul32(Xor32(s, Shr32(s, 15)), Or32(U32(0, 1), s)))

prngNext(state) == prngMix1(Add32(state, PRNG_INCREMENT))

\* Math.floor(prng() * k) for the fraction u / 2^32 and 1 <= k <= 7
floorScale(u, k) == (u[1] * k + ((u[2] * k) \div W16)) \div W16

\* variant of swap that copies bag[j] to bag[i] and leaves bag[j] as it is
swapCopying(bag, i, j) ==
  [k \in 1..Len(bag) |-> IF k = i THEN bag[j] ELSE bag[k]]

swap(bag, i, j) ==
  [k \in 1..Len(bag) |-> IF k = i THEN bag[j] ELSE IF k = j THEN bag[i] ELSE bag[k]]

\* the Fisher-Yates loop of generateBag, i counting down from length - 1 to
\* 1; shuffleStep is one round, given the draw r of the generator
RECURSIVE shuffle(_, _, _)
RECURSIVE shuffleStep(_, _, _)
shuffleStep(bag, r, i) ==
  shuffle(swap(bag, i + 1, floorScale(r.value, i + 1) + 1), r.state, i - 1)

shuffle(bag, state, i) ==
  IF i <= 0 THEN bag ELSE shuffleStep(bag, prngNext(state), i)

shuffledBag(seed, bagIndex) ==
  shuffle(TETROMINO_TYPES, hashSeed(seed, bagIndex), Len(TETROMINO_TYPES) - 1)

\* the seed "a", and two values generateDefaultSeed may return
SeedA == <<97>>
DefaultSeeds ==
  {<<48, 49, 50, 51, 52, 53, 54, 55, 56, 57, 97, 98, 99, 100, 101, 102>>,
   <<102, 101, 100, 99, 98, 97, 57, 56, 55, 54, 53, 52, 51, 50, 49, 48>>}

\* generateBag is a function of (seed, bagIndex) alone, so its values for the
\* seeds the sessions below use are computed once
RECURSIVE bagTable(_)
bagTable(keys) ==
  LET k == CHOOSE x \in keys : TRUE
      entry == k :> shuffledBag(k[1], k[2])
  IN  IF keys = {k} THEN entry ELSE entry @@ bagTable(keys \ {k})

BAG_TABLE == bagTable(({SeedA} \cup DefaultSeeds) \X (0..2))

generateBag(seed, bagIndex) ==
  IF <<seed, bagIndex>> \in DOMAIN BAG_TABLE THEN BAG_TABLE[<<seed, bagIndex>>]
  ELSE shuffledBag(seed, bagIndex)

determineBagIndex(historyLength) == historyLength \div Len(TETROMINO_TYPES)

createSevenBagRng(seed) ==
  [seed |-> seed, bag |-> generateBag(seed, 0), history |-> <<>>]

\* the result of a draw from the bag in use
drawFrom(state, bag) ==
  [piece |-> Head(bag),
   state |-> [seed |-> state.seed,
              bag |-> Tail(bag),
              history |-> Append(state.history, Head(bag))]]

drawNextPiece(state) ==
  drawFrom(state,
           IF Len(state.bag) = 0
           THEN generateBag(state.seed, determineBagIndex(Len(state.history)))
           ELSE state.bag)

(***************************************************************************)
(* next-queue: the lookahead queue.                                        *)
(***************************************************************************)
\* the loop of createNextQueue: n draws appended to pieces
RECURSIVE drawMany(_, _, _)
RECURSIVE drawManyStep(_, _, _)
drawManyStep(d, pieces, n) ==
  drawMany(d.state, Append(pieces, d.piece), n - 1)

drawMany(rng, pieces, n) ==
  IF n = 0 THEN [pieces |-> pieces, rng |-> rng]
  ELSE drawManyStep(drawNextPiece(rng), pieces, n)

\* the state createNextQueue returns for the four pieces drawn
queueOfDrawn(r) ==
  [active |-> Head(r.pieces), queue |-> Tail(r.pieces), rng |-> r.rng]

createNextQueue(rng) == queueOfDrawn(drawMany(rng, <<>>, 4))

\* variant of refill that stops at two pieces
refillToTwo(remaining, rng) ==
  IF Len(remaining) >= 2 THEN [queue |-> remaining, rng |-> rng]
  ELSE [queue |-> Append(remaining, drawNextPiece(rng).piece),
        rng |-> drawNextPiece(rng).state]

\* the while loop of advanceQueue: draw until three pieces remain
RECURSIVE refill(_, _)
RECURSIVE refillStep(_, _)
refillStep(remaining, d) == refill(Append(remaining, d.piece), d.state)

refill(remaining, rng) ==
  IF Len(remaining) >= 3 THEN [queue |-> remaining, rng |-> rng]
  ELSE refillStep(remaining, drawNextPiece(rng))

\* variant of firstOfQueue that always draws the active piece afresh
firstOfQueueDrawn(state) == drawNextPiece(state.rng)

\* the piece that becomes active: the head of the queue, or a fresh draw when
\* the queue is empty
firstOfQueue(state) ==
  IF Len(state.queue) > 0
  THEN [piece |-> Head(state.queue), state |-> state.rng]
  ELSE drawNextPiece(state.rng)

advanceRefilled(activePiece, r) ==
  [active |-> activePiece, queue |-> r.queue, rng |-> r.rng]

advanceFrom(state, first) ==
  advanceRefilled(first.piece,
                  refill(IF Len(state.queue) > 0 THEN Tail(state.queue)
                         ELSE <<>>,
                         first.state))

advanceQueue(state) == advanceFrom(state, firstOfQueue(state))

(***************************************************************************)
(* hold: the hold slot.                                                    *)
(***************************************************************************)
createHoldState == [slot |-> "null", usedThisTurn |-> FALSE]

\* variant of performHold that consumes the queue in the swap as well
performHoldConsuming(state, active, nextQueuePiece) ==
  IF state.usedThisTurn
  THEN [threw |-> TRUE, state |-> state, nextActive |-> "null",
        consumesQueue |-> FALSE]
  ELSE IF state.slot = "null" /\ nextQueuePiece = "null"
  THEN [threw |-> TRUE, state |-> state, nextActive |-> "null",
        consumesQueue |-> FALSE]
  ELSE [threw |-> FALSE,
        state |-> [slot |-> active, usedThisTurn |-> TRUE],
        nextActive |-> IF state.slot = "null" THEN nextQueuePiece
                       ELSE state.slot,
        consumesQueue |-> TRUE]

\* variant of performHold that holds again within a turn
performHoldAgain(state, active, nextQueuePiece) ==
  IF state.slot = "null"
  THEN IF nextQueuePiece = "null"
       THEN [threw |-> TRUE, state |-> state, nextActive |-> "null",
             consumesQueue |-> FALSE]
       ELSE [threw |-> FALSE,
             state |-> [slot |-> active, usedThisTurn |-> TRUE],
             nextActive |-> nextQueuePiece, consumesQueue |-> TRUE]
  ELSE [threw |-> FALSE,
        state |-> [slot |-> active, usedThisTurn |-> TRUE],
        nextActive |-> state.slot, consumesQueue |-> FALSE]

\* performHold throws in two cases; threw marks them and state is the input
performHold(state, active, nextQueuePiece) ==
  IF state.usedThisTurn
  THEN [threw |-> TRUE, state |-> state, nextActive |-> "null",
        consumesQueue |-> FALSE]
  ELSE IF state.slot = "null"
  THEN IF nextQueuePiece = "null"
       THEN [threw |-> TRUE, state |-> state, nextActive |-> "null",
             consumesQueue |-> FALSE]
       ELSE [threw |-> FALSE,
             state |-> [slot |-> active, usedThisTurn |-> TRUE],
             nextActive |-> nextQueuePiece, consumesQueue |-> TRUE]
  ELSE [threw |-> FALSE,
        state |-> [slot |-> active, usedThisTurn |-> TRUE],
        nextActive |-> state.slot, consumesQueue |-> FALSE]

\* variant of resetHold that leaves usedThisTurn as it is
resetHoldKeepsUsed(state) == state

resetHold(state) == [state EXCEPT !.usedThisTurn = FALSE]

(***************************************************************************)
(* gravity: the gravity / lock-delay machine.                              *)
(***************************************************************************)
createGravityState ==
  [fallElapsedMs |-> 0, lockElapsedMs |-> 0, lockFrames |-> 0,
   isLocking |-> FALSE]

\* variant of groundedCounters in which the step that starts the locking does
\* not count its frames
groundedCountersSkipFirstFrame(state, context) ==
  IF context.resetLock
  THEN [fallElapsedMs |-> 0, lockElapsedMs |-> 0, lockFrames |-> 0,
        isLocking |-> TRUE]
  ELSE [fallElapsedMs |-> 0,
        lockElapsedMs |-> state.lockElapsedMs + context.deltaMs,
        lockFrames |-> IF state.isLocking
                       THEN state.lockFrames + context.frames
                       ELSE state.lockFrames,
        isLocking |-> TRUE]

\* variant of groundedCounters in which the reset signal zeroes the counters
\* and the step's time and frames are then added
groundedCountersResetThenAdd(state, context) ==
  [fallElapsedMs |-> 0,
   lockElapsedMs |-> (IF context.resetLock THEN 0 ELSE state.lockElapsedMs)
                       + context.deltaMs,
   lockFrames |-> (IF context.resetLock THEN 0 ELSE state.lockFrames)
                    + context.frames,
   isLocking |-> TRUE]

\* the grounded branch: the reset signal zeroes the counters, otherwise the
\* step's time and frames are added
groundedCounters(state, context) ==
  IF context.resetLock
  THEN [fallElapsedMs |-> 0, lockElapsedMs |-> 0, lockFrames |-> 0,
        isLocking |-> TRUE]
  ELSE [fallElapsedMs |-> 0,
        lockElapsedMs |-> state.lockElapsedMs + context.deltaMs,
        lockFrames |-> state.lockFrames + context.frames,
        isLocking |-> TRUE]

\* variant of fallRows that drops at most one row in a step
fallRowsAtMostOne(state, config, context) ==
  IF config.gravityMs > 0
     /\ state.fallElapsedMs + context.deltaMs >= config.gravityMs
  THEN 1
  ELSE 0

\* Math.floor(totalFall / gravityMs), 0 when gravityMs is not positive
fallRows(state, config, context) ==
  IF config.gravityMs > 0
  THEN (state.fallElapsedMs + context.deltaMs) \div config.gravityMs
  ELSE 0

\* variant of fallingCounters that clears isLocking and keeps the counters
fallingCountersKeepLock(state, config, context) ==
  [fallElapsedMs |-> IF config.gravityMs > 0
                     THEN (state.fallElapsedMs + context.deltaMs)
                            - fallRows(state, config, context) * config.gravityMs
                     ELSE 0,
   lockElapsedMs |-> state.lockElapsedMs,
   lockFrames |-> state.lockFrames,
   isLocking |-> FALSE]

\* the falling branch: leaving the ground clears the lock counters
fallingCounters(state, config, context) ==
  LET totalFall == state.fallElapsedMs + context.deltaMs
  IN  [fallElapsedMs |-> IF config.gravityMs > 0
                         THEN totalFall
                                - fallRows(state, config, context) * config.gravityMs
                         ELSE 0,
       lockElapsedMs |-> IF state.isLocking THEN 0 ELSE state.lockElapsedMs,
       lockFrames |-> IF state.isLocking THEN 0 ELSE state.lockFrames,
       isLocking |-> FALSE]

\* variant of lockThresholdReached whose time test is not strict
lockThresholdInclusive(counters, config) ==
  \/ counters.lockElapsedMs >= config.lockDelayMs
  \/ counters.lockFrames >= config.lockDelayFrames

\* timeReached || framesReached
lockThresholdReached(counters, config) ==
  \/ counters.lockElapsedMs > config.lockDelayMs
  \/ counters.lockFrames >= config.lockDelayFrames

stepGravity(state, config, context) ==
  LET g == IF context.grounded THEN groundedCounters(state, context)
           ELSE fallingCounters(state, config, context)
  IN  [state |-> g,
       dropRows |-> IF context.grounded THEN 0
                    ELSE fallRows(state, config, context),
       shouldLock |-> context.grounded /\ lockThresholdReached(g, config),
       lockReset |-> context.grounded /\ context.resetLock]

(***************************************************************************)
(* scoring.                                                                *)
(***************************************************************************)
createInitialStats ==
  [score |-> 0, level |-> 0, lines |-> 0, dropDistanceSoft |-> 0,
   dropDistanceHard |-> 0]

LINE_CLEAR_POINTS(n) ==
  CASE n = 1 -> 100 [] n = 2 -> 300 [] n = 3 -> 500 [] n = 4 -> 800
    [] OTHER -> 0

\* variant of applyLineClear that multiplies by the level after the clear
applyLineClearNewLevel(stats, linesCleared) ==
  IF linesCleared <= 0 THEN stats
  ELSE [stats EXCEPT
          !.score = stats.score + LINE_CLEAR_POINTS(linesCleared)
                                    * (((stats.lines + linesCleared) \div 10) + 1),
          !.lines = stats.lines + linesCleared,
          !.level = (stats.lines + linesCleared) \div 10]

applyLineClear(stats, linesCleared) ==
  IF linesCleared <= 0 THEN stats
  ELSE [stats EXCEPT
          !.score = stats.score + LINE_CLEAR_POINTS(linesCleared) * (stats.level + 1),
          !.lines = stats.lines + linesCleared,
          !.level = (stats.lines + linesCleared) \div 10]

\* variant of applySoftDrop that does not carry the other counters over
applySoftDropFresh(stats, cells) ==
  IF cells <= 0 THEN stats
  ELSE [createInitialStats EXCEPT
          !.score = stats.score + cells,
          !.dropDistanceSoft = stats.dropDistanceSoft + cells]

applySoftDrop(stats, cells) ==
  IF cells <= 0 THEN stats
  ELSE [stats EXCEPT !.score = stats.score + cells,
                     !.dropDistanceSoft = stats.dropDistanceSoft + cells]

\* variant of applyHardDrop that awards one point per cell
applyHardDropSingle(stats, cells) ==
  IF cells <= 0 THEN stats
  ELSE [stats EXCEPT !.score = stats.score + cells,
                     !.dropDistanceHard = stats.dropDistanceHard + cells]

applyHardDrop(stats, cells) ==
  IF cells <= 0 THEN stats
  ELSE [stats EXCEPT !.score = stats.score + cells * 2,
                     !.dropDistanceHard = stats.dropDistanceHard + cells]

(***************************************************************************)
(* srs: piece geometry.  Pivots may lie on half cells (I: column 1.5, O:    *)
(* row and column 1.5), so the coordinates the code rotates are kept        *)
(* doubled here: a doubled value d stands for d / 2.                        *)
(***************************************************************************)
Pt(r, c) == [row |-> r, col |-> c]

\* Math.round of the doubled value d, that is floor(d / 2 + 1 / 2)
roundHalf(d) == (d + 1) \div 2

\* PIECE_DEFINITIONS[type].originCells
originCells(type) ==
  CASE type = "I" -> <<Pt(1, 0), Pt(1, 1), Pt(1, 2), Pt(1, 3)>>
    [] type = "O" -> <<Pt(0, 1), Pt(0, 2), Pt(1, 1), Pt(1, 2)>>
    [] type = "T" -> <<Pt(0, 1), Pt(1, 0), Pt(1, 1), Pt(1, 2)>>
    [] type = "S" -> <<Pt(0, 1), Pt(0, 2), Pt(1, 0), Pt(1, 1)>>
    [] type = "Z" -> <<Pt(0, 0), Pt(0, 1), Pt(1, 1), Pt(1, 2)>>
    [] type = "J" -> <<Pt(0, 0), Pt(1, 0), Pt(1, 1), Pt(1, 2)>>
    [] type = "L" -> <<Pt(0, 2), Pt(1, 0), Pt(1, 1), Pt(1, 2)>>

\* PIECE_DEFINITIONS[type].originPivot, doubled
originPivot2(type) ==
  CASE type = "I" -> Pt(2, 3)
    [] type = "O" -> Pt(3, 3)
    [] OTHER -> Pt(2, 2)

\* PIVOT_OFFSETS[type][rotation], doubled
PIVOT_OFFSETS2(type, rotation) ==
  CASE type = "I" -> <<Pt(2, 4), Pt(2, 4), Pt(2, 2), Pt(2, 2)>>[rotation + 1]
    [] type = "O" -> <<Pt(3, 3), Pt(3, 3), Pt(3, 3), Pt(3, 3)>>[rotation + 1]
    [] OTHER -> <<Pt(2, 2), Pt(2, 4), Pt(4, 2), Pt(2, 0)>>[rotation + 1]

\* rotateAroundPivot on doubled coordinates
rotateAroundPivot(cell2, pivot2) ==
  Pt(pivot2.row - (cell2.col - pivot2.col), pivot2.col + (cell2.row - pivot2.row))

\* rawCells at the start of iteration i of buildRotationDefinitions, doubled
RECURSIVE rawCells2(_, _)
rawCells2(type, i) ==
  IF i = 0
  THEN [k \in 1..4 |-> Pt(2 * originCells(type)[k].row, 2 * originCells(type)[k].col)]
  ELSE LET prev == rawCells2(type, i - 1)
       IN  [k \in 1..4 |-> rotateAroundPivot(prev[k], originPivot2(type))]

MinOf(S) == CHOOSE x \in S : \A y \in S : x <= y
MaxOf(S) == CHOOSE x \in S : \A y \in S : x >= y

\* the body of the loop of buildRotationDefinitions for one type and rotation,
\* given the raw cells of that iteration
normalizeCells(raw, minRow, minCol) ==
  [k \in 1..4 |-> Pt(roundHalf(raw[k].row - minRow),
                     roundHalf(raw[k].col - minCol))]

buildRotationDefinitions(type, rotation) ==
  [cells |-> normalizeCells(rawCells2(type, rotation),
                            MinOf({rawCells2(type, rotation)[k].row : k \in 1..4}),
                            MinOf({rawCells2(type, rotation)[k].col : k \in 1..4})),
   pivotOffset2 |-> PIVOT_OFFSETS2(type, rotation)]

\* the table is computed once, for the keys <<type, rotation>>
RECURSIVE rotationTable(_)
rotationTable(keys) ==
  LET k == CHOOSE x \in keys : TRUE
  IN  IF keys = {k} THEN k :> buildRotationDefinitions(k[1], k[2])
      ELSE (k :> buildRotationDefinitions(k[1], k[2]))
             @@ rotationTable(keys \ {k})

ROTATION_DEFINITIONS == rotationTable(PieceKinds \X (0..3))

rotationDefinition(type, rotation) == ROTATION_DEFINITIONS[<<type, rotation>>]

getPieceCells(type, rotation) == rotationDefinition(type, rotation).cells

\* the boolean matrix getPieceShape builds: shape[r + 1][c + 1]
shapeOfCells(cells, height, width) ==
  [r \in 1..height |->
    [c \in 1..width |-> \E k \in 1..Len(cells) :
                           cells[k].row = r - 1 /\ cells[k].col = c - 1]]

pieceShapeMatrix(type, rotation) ==
  shapeOfCells(getPieceCells(type, rotation),
               MaxOf({getPieceCells(type, rotation)[k].row : k \in 1..4}) + 1,
               MaxOf({getPieceCells(type, rotation)[k].col : k \in 1..4}) + 1)

\* getPieceShape is a pure function of constants: its 28 results are computed
\* once, for the keys <<type, rotation>>
RECURSIVE shapeTable(_)
shapeTable(keys) ==
  LET k == CHOOSE x \in keys : TRUE
  IN  IF keys = {k} THEN k :> pieceShapeMatrix(k[1], k[2])
      ELSE (k :> pieceShapeMatrix(k[1], k[2])) @@ shapeTable(keys \ {k})

PIECE_SHAPES == shapeTable(PieceKinds \X (0..3))

getPieceShape(type, rotation) == PIECE_SHAPES[<<type, rotation>>]

(***************************************************************************)
(* collision.                                                              *)
(***************************************************************************)
EmptyCell == [occupied |-> FALSE, type |-> "none"]

shapeWidthOf(shape) == IF Len(shape) > 0 THEN Len(shape[1]) ELSE 0
boardWidthOf(board) == IF Len(board) > 0 THEN Len(board[1]) ELSE 0

\* the shape cells that are set, as <<row, col>> counted from 1
filledCells(shape) ==
  {rc \in (1..Len(shape)) \X (1..shapeWidthOf(shape)) : shape[rc[1]][rc[2]]}

\* the test of the inner loop for a set cell: its board cell is off the board
cellOutside(board, position, rc) ==
  \/ position.row + rc[1] - 1 < 0
  \/ position.row + rc[1] - 1 >= Len(board)
  \/ position.col + rc[2] - 1 < 0
  \/ position.col + rc[2] - 1 >= Len(board[position.row + rc[1]])

\* variant of outOfBoundsAt without the test on the bounding box
outOfBoundsCellsOnly(board, shape, position) ==
  \E rc \in filledCells(shape) : cellOutside(board, position, rc)

\* the test on the bounding box of the shape, and the test of the set cells
outOfBoundsAt(board, shape, position) ==
  \/ position.row < 0
  \/ position.col < 0
  \/ position.row + Len(shape) > Len(board)
  \/ position.col + shapeWidthOf(shape) > boardWidthOf(board)
  \/ \E rc \in filledCells(shape) : cellOutside(board, position, rc)

overlapsAt(board, shape, position) ==
  \E rc \in filledCells(shape) :
    /\ ~cellOutside(board, position, rc)
    /\ board[position.row + rc[1]][position.col + rc[2]].occupied

checkCollision(board, shape, position) ==
  [collides |-> \/ outOfBoundsAt(board, shape, position)
                \/ overlapsAt(board, shape, position),
   outOfBounds |-> outOfBoundsAt(board, shape, position),
   overlaps |-> overlapsAt(board, shape, position)]

\* canPlace of the collision module (the rotation system has its own)
canPlaceOnBoard(board, shape, position) ==
  ~checkCollision(board, shape, position).collides

(***************************************************************************)
(* board: locking a piece and compacting the rows.                         *)
(***************************************************************************)
DEFAULT_BOARD_ROWS == 40
DEFAULT_BOARD_COLS == 20

createEmptyRow(cols) == [c \in 1..cols |-> EmptyCell]

createEmptyBoard(rows, cols) == [r \in 1..rows |-> createEmptyRow(cols)]

rowFull(row) == \A c \in 1..Len(row) : row[c].occupied
rowSome(row) == \E c \in 1..Len(row) : row[c].occupied

\* the row indices 0 .. n - 1 in ascending order
rowIndices(n) == [i \in 1..n |-> i - 1]

\* the board after the stamping loop of lockPiece
stampPiece(board, shape, position, type) ==
  [r \in 1..Len(board) |->
    [c \in 1..Len(board[r]) |->
      LET shapeRow == (r - 1) - position.row
          shapeCol == (c - 1) - position.col
      IN  IF /\ shapeRow >= 0 /\ shapeRow < Len(shape)
             /\ shapeCol >= 0 /\ shapeCol < Len(shape[shapeRow + 1])
             /\ shape[shapeRow + 1][shapeCol + 1]
          THEN [occupied |-> TRUE, type |-> type]
          ELSE board[r][c]]]

\* variant of clearedLinesOf that lists the full rows from the bottom up
clearedLinesDescending(nextBoard) ==
  [i \in 1..Len(SelectSeq(rowIndices(Len(nextBoard)),
                          LAMBDA rowIndex : rowFull(nextBoard[rowIndex + 1]))) |->
     SelectSeq(rowIndices(Len(nextBoard)),
               LAMBDA rowIndex : rowFull(nextBoard[rowIndex + 1]))
       [Len(SelectSeq(rowIndices(Len(nextBoard)),
                      LAMBDA rowIndex : rowFull(nextBoard[rowIndex + 1])))
          + 1 - i]]

\* the indices of the rows of nextBoard that are full, ascending
clearedLinesOf(nextBoard) ==
  SelectSeq(rowIndices(Len(nextBoard)),
            LAMBDA rowIndex : rowFull(nextBoard[rowIndex + 1]))

\* variant of compactRowsOf that leaves out the topmost of the rows it keeps
compactRowsOfBelowTop(nextBoard) ==
  IF Len(SelectSeq(nextBoard, LAMBDA row : ~rowFull(row) /\ rowSome(row))) > 0
  THEN Tail(SelectSeq(nextBoard, LAMBDA row : ~rowFull(row) /\ rowSome(row)))
  ELSE <<>>

\* the rows of nextBoard the filter of lockPiece keeps: neither full nor empty
compactRowsOf(nextBoard) ==
  SelectSeq(nextBoard, LAMBDA row : ~rowFull(row) /\ rowSome(row))

\* variant of compactBoard that compacts only when more rows are retained
\* than cleared
compactBoardStrict(nextBoard, clearedLines, compactRows, boardWidth) ==
  IF Len(clearedLines) = 0 THEN nextBoard
  ELSE IF Len(compactRows) = 0
  THEN createEmptyBoard(Len(nextBoard), boardWidth)
  ELSE IF Len(compactRows) > Len(clearedLines)
  THEN [r \in 1..Len(nextBoard) |->
          IF r <= Len(nextBoard) - Len(compactRows)
          THEN createEmptyRow(boardWidth)
          ELSE compactRows[r - (Len(nextBoard) - Len(compactRows))]]
  ELSE [r \in 1..Len(nextBoard) |->
          IF rowFull(nextBoard[r]) THEN createEmptyRow(boardWidth)
          ELSE nextBoard[r]]

\* the compaction branches of lockPiece
compactBoard(nextBoard, clearedLines, compactRows, boardWidth) ==
  IF Len(clearedLines) = 0 THEN nextBoard
  ELSE IF Len(compactRows) = 0
  THEN createEmptyBoard(Len(nextBoard), boardWidth)
  ELSE IF Len(compactRows) >= Len(clearedLines)
  THEN [r \in 1..Len(nextBoard) |->
          IF r <= Len(nextBoard) - Len(compactRows)
          THEN createEmptyRow(boardWidth)
          ELSE compactRows[r - (Len(nextBoard) - Len(compactRows))]]
  ELSE [r \in 1..Len(nextBoard) |->
          IF rowFull(nextBoard[r]) THEN createEmptyRow(boardWidth)
          ELSE nextBoard[r]]

lockPiece(board, shape, position, type) ==
  [board |-> compactBoard(stampPiece(board, shape, position, type),
                          clearedLinesOf(stampPiece(board, shape, position, type)),
                          compactRowsOf(stampPiece(board, shape, position, type)),
                          boardWidthOf(board)),
   clearedLines |-> clearedLinesOf(stampPiece(board, shape, position, type))]

(***************************************************************************)
(* ghost.                                                                  *)
(***************************************************************************)
\* variant of descend that stops after one row
descendOneRow(board, shape, position, offset) ==
  IF checkCollision(board, shape,
                    Pt(position.row + offset + 1, position.col)).collides
  THEN offset
  ELSE offset + 1

\* the while loop of computeGhostPosition and of hardDrop: the number of rows
\* the shape can descend from position before the next row collides
RECURSIVE descend(_, _, _, _)
descend(board, shape, position, offset) ==
  IF checkCollision(board, shape,
                    Pt(position.row + offset + 1, position.col)).collides
  THEN offset
  ELSE descend(board, shape, position, offset + 1)

\* piece is <<>> (null) or <<p>>; so is the result
computeGhostPosition(board, piece) ==
  IF piece = <<>> THEN <<>>
  ELSE IF checkCollision(board,
                         getPieceShape(piece[1].type, piece[1].rotation),
                         piece[1].position).collides
  THEN <<>>
  ELSE <<Pt(piece[1].position.row
              + descend(board, getPieceShape(piece[1].type, piece[1].rotation),
                        piece[1].position, 0),
            piece[1].position.col)>>

(***************************************************************************)
(* srs: wall kicks and rotation.                                           *)
(***************************************************************************)
\* the raw tables hold [x, y] pairs, keyed here by <<from, to>>
RAW_JLSTZ_KICKS ==
  (<<0, 1>> :> <<<<0, 0>>, <<-1, 0>>, <<-1, 1>>>>) @@
  (<<0, 3>> :> <<<<0, 0>>, <<1, 0>>, <<1, 1>>>>) @@
  (<<1, 2>> :> <<<<0, 0>>, <<1, 0>>, <<1, -1>>>>) @@
  (<<1, 0>> :> <<<<0, 0>>, <<-1, 0>>, <<-1, -1>>>>) @@
  (<<2, 3>> :> <<<<0, 0>>, <<1, 0>>, <<1, 1>>>>) @@
  (<<2, 1>> :> <<<<0, 0>>, <<-1, 0>>, <<-1, 1>>>>) @@
  (<<3, 0>> :> <<<<0, 0>>, <<-1, 0>>, <<-1, -1>>>>) @@
  (<<3, 2>> :> <<<<0, 0>>, <<1, 0>>, <<1, -1>>>>)

RAW_I_KICKS ==
  (<<0, 1>> :> <<<<-2, 1>>, <<0, 0>>, <<-2, 0>>, <<1, 0>>, <<1, -2>>>>) @@
  (<<0, 3>> :> <<<<2, 1>>, <<0, 0>>, <<2, 0>>, <<-1, 0>>, <<-1, -2>>>>) @@
  (<<1, 2>> :> <<<<-1, -2>>, <<0, 0>>, <<-1, 0>>, <<2, 0>>, <<2, 1>>>>) @@
  (<<1, 0>> :> <<<<2, -1>>, <<0, 0>>, <<2, 0>>, <<-1, 0>>, <<-1, 2>>>>) @@
  (<<2, 3>> :> <<<<1, 2>>, <<0, 0>>, <<1, 0>>, <<-2, 0>>, <<-2, -1>>>>) @@
  (<<2, 1>> :> <<<<-2, -1>>, <<0, 0>>, <<-2, 0>>, <<1, 0>>, <<1, 2>>>>) @@
  (<<3, 0>> :> <<<<1, -2>>, <<0, 0>>, <<1, 0>>, <<-2, 0>>, <<-2, 1>>>>) @@
  (<<3, 2>> :> <<<<2, -1>>, <<0, 0>>, <<2, 0>>, <<-1, 0>>, <<-1, 2>>>>)

\* variant of convertKickTable that reads the pairs as [y, x]
convertKickTableTransposed(raw) ==
  [ft \in DOMAIN raw |->
    [k \in 1..Len(raw[ft]) |-> Pt(-(raw[ft][k][1]), raw[ft][k][2])]]

\* [x, y] becomes {row: -y, col: x}
convertKickTable(raw) ==
  [ft \in DOMAIN raw |->
    [k \in 1..Len(raw[ft]) |-> Pt(-(raw[ft][k][2]), raw[ft][k][1])]]

JLSTZ_KICKS == convertKickTable(RAW_JLSTZ_KICKS)
I_KICKS == convertKickTable(RAW_I_KICKS)
O_KICKS ==
  [ft \in {<<0, 1>>, <<0, 3>>, <<1, 2>>, <<1, 0>>, <<2, 3>>, <<2, 1>>,
           <<3, 0>>, <<3, 2>>} |-> <<Pt(0, 0)>>]

getKickTableForType(type) ==
  IF type = "I" THEN I_KICKS ELSE IF type = "O" THEN O_KICKS ELSE JLSTZ_KICKS

getKickTests(type, from, to) ==
  IF /\ <<from, to>> \in DOMAIN getKickTableForType(type)
     /\ Len(getKickTableForType(type)[<<from, to>>]) > 0
  THEN getKickTableForType(type)[<<from, to>>]
  ELSE <<Pt(0, 0)>>

\* computeDelta on doubled pivots: the doubled displacement
computeDelta2(fromPivot2, toPivot2, kickComponent) ==
  2 * kickComponent + fromPivot2 - toPivot2

\* the isOccupied oracle rotatePiece hands to the rotation system
isOccupied(board, width, height, row, col) ==
  IF row < 0 \/ row >= height \/ col < 0 \/ col >= width THEN TRUE
  ELSE board[row + 1][col + 1].occupied

\* canPlace of srs; topLeftRow2 and topLeftCol2 are doubled
canPlace(type, rotation, topLeftRow2, topLeftCol2, board, width, height) ==
  \A k \in 1..Len(rotationDefinition(type, rotation).cells) :
    ~isOccupied(board, width, height,
                roundHalf(topLeftRow2
                            + 2 * rotationDefinition(type, rotation).cells[k].row),
                roundHalf(topLeftCol2
                            + 2 * rotationDefinition(type, rotation).cells[k].col))

normalizeRotation(rotation) == rotation % 4

\* candidateRow and candidateCol of the kick loop, doubled
candidate2(piece, fromData, toData, kick) ==
  Pt(2 * piece.position.row
       + computeDelta2(fromData.pivotOffset2.row, toData.pivotOffset2.row,
                       kick.row),
     2 * piece.position.col
       + computeDelta2(fromData.pivotOffset2.col, toData.pivotOffset2.col,
                       kick.col))

\* the indices of the kicks whose candidate passes canPlace
passingKicks(piece, targetRotation, kicks, fromData, toData, board, width, height) ==
  {k \in 1..Len(kicks) :
     canPlace(piece.type, targetRotation,
              candidate2(piece, fromData, toData, kicks[k]).row,
              candidate2(piece, fromData, toData, kicks[k]).col,
              board, width, height)}

\* the result returned inside the kick loop for a passing candidate
rotationSuccess(piece, targetRotation, candidate) ==
  [success |-> TRUE,
   piece |-> [type |-> piece.type,
              rotation |-> targetRotation,
              position |-> Pt(roundHalf(candidate.row), roundHalf(candidate.col))],
   kick |-> <<Pt(roundHalf(candidate.row) - piece.position.row,
                 roundHalf(candidate.col) - piece.position.col)>>]

\* variant of rotationResult that takes the last passing kick
rotationResultLastKick(piece, targetRotation, kicks, fromData, toData, passing) ==
  IF passing = {}
  THEN [success |-> FALSE, piece |-> piece, kick |-> <<>>]
  ELSE rotationSuccess(piece, targetRotation,
                       candidate2(piece, fromData, toData, kicks[MaxOf(passing)]))

\* the kick loop returns at the first passing kick
rotationResult(piece, targetRotation, kicks, fromData, toData, passing) ==
  IF passing = {}
  THEN [success |-> FALSE, piece |-> piece, kick |-> <<>>]
  ELSE rotationSuccess(piece, targetRotation,
                       candidate2(piece, fromData, toData, kicks[MinOf(passing)]))

rotateWith(piece, targetRotation, kicks, fromData, toData, board, width, height) ==
  rotationResult(piece, targetRotation, kicks, fromData, toData,
                 passingKicks(piece, targetRotation, kicks, fromData, toData,
                              board, width, height))

rotateTo(piece, targetRotation, board, width, height) ==
  rotateWith(piece, targetRotation,
             getKickTests(piece.type, piece.rotation, targetRotation),
             rotationDefinition(piece.type, piece.rotation),
             rotationDefinition(piece.type, targetRotation),
             board, width, height)

attemptSrsRotation(piece, direction, board, width, height) ==
  rotateTo(piece,
           normalizeRotation((piece.rotation + (IF direction = "cw" THEN 1 ELSE 3)) % 4),
           board, width, height)

(***************************************************************************)
(* state-machine: the phase machine.  A snapshot is [phase, holdAvailable]. *)
(***************************************************************************)
createStateMachine == [phase |-> "ready", holdAvailable |-> TRUE]

\* variant of nextSnapshot whose resume case does not test the phase
nextSnapshotResumeAnywhere(current, event) ==
  CASE event = "start" /\ current.phase = "ready" ->
         [phase |-> "playing", holdAvailable |-> TRUE]
    [] event = "pause" /\ current.phase = "playing" ->
         [current EXCEPT !.phase = "paused"]
    [] event = "resume" ->
         [current EXCEPT !.phase = "playing"]
    [] event = "gameOver" /\ current.phase # "gameOver" ->
         [phase |-> "gameOver", holdAvailable |-> FALSE]
    [] event = "useHold" /\ current.phase = "playing" /\ current.holdAvailable ->
         [current EXCEPT !.holdAvailable = FALSE]
    [] event = "lock" /\ current.phase = "playing" /\ ~current.holdAvailable ->
         [current EXCEPT !.holdAvailable = TRUE]
    [] OTHER -> current

\* the snapshot the switch of dispatch computes from the current one
nextSnapshot(current, event) ==
  CASE event = "start" /\ current.phase = "ready" ->
         [phase |-> "playing", holdAvailable |-> TRUE]
    [] event = "pause" /\ current.phase = "playing" ->
         [current EXCEPT !.phase = "paused"]
    [] event = "resume" /\ current.phase = "paused" ->
         [current EXCEPT !.phase = "playing"]
    [] event = "gameOver" /\ current.phase # "gameOver" ->
         [phase |-> "gameOver", holdAvailable |-> FALSE]
    [] event = "useHold" /\ current.phase = "playing" /\ current.holdAvailable ->
         [current EXCEPT !.holdAvailable = FALSE]
    [] event = "lock" /\ current.phase = "playing" /\ ~current.holdAvailable ->
         [current EXCEPT !.holdAvailable = TRUE]
    [] OTHER -> current

(***************************************************************************)
(* game-loop: the session orchestrator.  A loop value L is                  *)
(*   [opts, internal, machine]                                              *)
(* opts are the options createGameLoop closes over, internal is the         *)
(* InternalState and machine the snapshot of the current phase machine.     *)
(* opts.seed is <<>> when no seed option was given and <<s>> otherwise.     *)
(***************************************************************************)
LOCK_DELAY_MS == 500
LOCK_DELAY_FRAMES == 15
MIN_GRAVITY_MS == 50
INITIAL_ROTATION == 0

\* Math.round(1000 * Math.pow(0.85, level)) as IEEE doubles evaluate it, for
\* the levels 0 .. 18; from level 19 on the value is below MIN_GRAVITY_MS
ROUNDED_GRAVITY ==
  <<1000, 850, 722, 614, 522, 444, 377, 321, 272, 232, 197, 167, 142, 121,
    103, 87, 74, 63, 54>>

gravityMsForLevel(level) ==
  IF level + 1 <= Len(ROUNDED_GRAVITY)
  THEN IF ROUNDED_GRAVITY[level + 1] > MIN_GRAVITY_MS
       THEN ROUNDED_GRAVITY[level + 1] ELSE MIN_GRAVITY_MS
  ELSE MIN_GRAVITY_MS

mapLockSnapshot(state) ==
  [isLocking |-> state.isLocking, elapsedMs |-> state.lockElapsedMs,
   frames |-> state.lockFrames]

\* `seed ? createSevenBagRng(seed) : createSevenBagRng()`: an absent or empty
\* seed is falsy, and the randomizer then takes the seed generateDefaultSeed
\* returns, which is defaultSeed here
seedOrDefault(seedOpt, defaultSeed) ==
  IF seedOpt # <<>> /\ Len(seedOpt[1]) > 0 THEN seedOpt[1] ELSE defaultSeed

\* the record createInitialInternalState returns, given the gravity interval
\* of the initial level and the next queue it created
initialInternalState(width, height, gravityMs, queue) ==
  [session |->
     [board |-> createEmptyBoard(height, width),
      active |-> <<>>,
      hold |-> "null",
      holdUsedThisTurn |-> FALSE,
      nextQueue |-> queue.queue,
      rng |-> queue.rng,
      stats |-> createInitialStats,
      speed |-> [gravityMs |-> gravityMs, lockDelayMs |-> LOCK_DELAY_MS],
      lock |-> mapLockSnapshot(createGravityState),
      phase |-> "ready",
      ghost |-> <<>>,
      seed |-> queue.rng.seed],
   gravity |-> createGravityState,
   gravityConfig |-> [gravityMs |-> gravityMs,
                      lockDelayMs |-> LOCK_DELAY_MS,
                      lockDelayFrames |-> LOCK_DELAY_FRAMES],
   nextQueue |-> queue,
   hold |-> createHoldState,
   running |-> FALSE,
   pendingLockReset |-> FALSE,
   seed |-> queue.rng.seed]

createInitialInternalState(width, height, initialLevel, seedOpt, defaultSeed) ==
  initialInternalState(
    width, height, gravityMsForLevel(initialLevel),
    createNextQueue(createSevenBagRng(seedOrDefault(seedOpt, defaultSeed))))

createGameLoop(opts, defaultSeed) ==
  [opts |-> opts,
   internal |-> createInitialInternalState(opts.width, opts.height,
                                           opts.initialLevel, opts.seed,
                                           defaultSeed),
   machine |-> createStateMachine]

\* update of the machine and its subscriber: when the snapshot changes, the
\* subscriber copies the phase and the hold flag into the session
applySnapshot(L, next) ==
  IF next = L.machine THEN L
  ELSE [L EXCEPT !.machine = next,
                 !.internal.session.phase = next.phase,
                 !.internal.session.holdUsedThisTurn = ~next.holdAvailable]

dispatch(L, event) == applySnapshot(L, nextSnapshot(L.machine, event))

resetStateMachine(L) == [L EXCEPT !.machine = createStateMachine]

updateSpeed(L, level) ==
  [L EXCEPT !.internal.session.speed =
               [gravityMs |-> gravityMsForLevel(level),
                lockDelayMs |-> LOCK_DELAY_MS],
            !.internal.session.lock = mapLockSnapshot(createGravityState),
            !.internal.gravityConfig =
               [gravityMs |-> gravityMsForLevel(level),
                lockDelayMs |-> LOCK_DELAY_MS,
                lockDelayFrames |-> LOCK_DELAY_FRAMES],
            !.internal.gravity = createGravityState]

\* the assignment of ensureNextQueue, given the queue it created
withNextQueue(L, queue) ==
  [L EXCEPT !.internal.nextQueue = queue,
            !.internal.session.rng = queue.rng,
            !.internal.session.nextQueue = queue.queue,
            !.internal.session.seed = queue.rng.seed]

ensureNextQueue(L, seedOpt, defaultSeed) ==
  withNextQueue(L, createNextQueue(
                     createSevenBagRng(seedOrDefault(seedOpt, defaultSeed))))

\* the shape of the active piece
activeShape(L) ==
  getPieceShape(L.internal.session.active[1].type,
                L.internal.session.active[1].rotation)

\* the test processTick makes: the active piece cannot descend one row
isGrounded(L) ==
  checkCollision(L.internal.session.board, activeShape(L),
                 Pt(L.internal.session.active[1].position.row + 1,
                    L.internal.session.active[1].position.col)).collides

\* spawnPiece once the position is computed: <<>> when the placement
\* collides, else <<piece>>
spawnAt(type, rotation, board, shape, position) ==
  IF checkCollision(board, shape, position).collides THEN <<>>
  ELSE <<[type |-> type, rotation |-> rotation, position |-> position]>>

spawnPiece(type, rotation, board) ==
  spawnAt(type, rotation, board, getPieceShape(type, rotation),
          Pt(0, ((IF Len(board) > 0 THEN Len(board[1]) ELSE DEFAULT_BOARD_COLS)
                   - shapeWidthOf(getPieceShape(type, rotation))) \div 2))

\* variant of lockSpawned that stops the loop on a failed spawn without
\* telling the state machine
lockSpawnedSilently(L2, nextPiece) ==
  IF nextPiece = <<>>
  THEN [L2 EXCEPT
          !.internal.running = FALSE,
          !.internal.session.active = <<>>,
          !.internal.session.ghost = <<>>]
  ELSE dispatch(
         [L2 EXCEPT
            !.internal.session.active = nextPiece,
            !.internal.session.ghost =
               computeGhostPosition(L2.internal.session.board, nextPiece),
            !.internal.hold = resetHold(L2.internal.hold)],
         "lock")

\* the end of lockActivePiece, from the spawn of the next piece on
lockSpawned(L2, nextPiece) ==
  IF nextPiece = <<>>
  THEN [dispatch(L2, "gameOver") EXCEPT
          !.internal.running = FALSE,
          !.internal.session.active = <<>>,
          !.internal.session.ghost = <<>>]
  ELSE dispatch(
         [L2 EXCEPT
            !.internal.session.active = nextPiece,
            !.internal.session.ghost =
               computeGhostPosition(L2.internal.session.board, nextPiece),
            !.internal.hold = resetHold(L2.internal.hold)],
         "lock")

\* lockActivePiece from the assignment of the stats to updateSpeed and the
\* clearing of pendingLockReset
lockAdvanced(L, nextBoard, stats, updatedQueue) ==
  lockSpawned(
    [updateSpeed([L EXCEPT !.internal.session.stats = stats,
                           !.internal.session.board = nextBoard,
                           !.internal.session.active = <<>>,
                           !.internal.session.nextQueue = updatedQueue.queue,
                           !.internal.session.rng = updatedQueue.rng,
                           !.internal.session.ghost = <<>>,
                           !.internal.nextQueue = updatedQueue],
                 stats.level)
       EXCEPT !.internal.pendingLockReset = FALSE],
    spawnPiece(updatedQueue.active, INITIAL_ROTATION, nextBoard))

\* internal.nextQueue is never null: createInitialInternalState and
\* ensureNextQueue set it to a queue and every later write stores the result
\* of advanceQueue, so the `!updatedQueue` branch of the code cannot run
lockLocked(L, locked) ==
  lockAdvanced(L, locked.board,
               IF Len(locked.clearedLines) > 0
               THEN applyLineClear(L.internal.session.stats,
                                   Len(locked.clearedLines))
               ELSE L.internal.session.stats,
               advanceQueue(L.internal.nextQueue))

\* both branches on fromHardDrop make the same assignment
lockActivePiece(L, fromHardDrop) ==
  IF L.internal.session.active = <<>> THEN L
  ELSE lockLocked(L, lockPiece(L.internal.session.board, activeShape(L),
                               L.internal.session.active[1].position,
                               L.internal.session.active[1].type))

\* variant of accepting that lets a paused session through
acceptingWhilePaused(L) ==
  /\ L.internal.running
  /\ L.internal.session.phase \in {"playing", "paused"}
  /\ L.internal.session.active # <<>>

\* the guard the input handlers and processTick share
accepting(L) ==
  /\ L.internal.running
  /\ L.internal.session.phase = "playing"
  /\ L.internal.session.active # <<>>

\* variant of withMoved that leaves the ghost of the piece's old place
withMovedKeepingGhost(L, updated) ==
  [L EXCEPT !.internal.session.active = <<updated>>,
            !.internal.pendingLockReset = TRUE]

\* the assignment of a new active piece that moveHorizontal and rotatePiece
\* share
withMoved(L, updated) ==
  [L EXCEPT !.internal.session.active = <<updated>>,
            !.internal.session.ghost =
               computeGhostPosition(L.internal.session.board, <<updated>>),
            !.internal.pendingLockReset = TRUE]

\* variant of moveTo that moves the piece without the collision test
moveToUntested(L, active, target) ==
  withMoved(L, [active EXCEPT !.position = target])

moveTo(L, active, target) ==
  IF checkCollision(L.internal.session.board,
                    getPieceShape(active.type, active.rotation), target).collides
  THEN L
  ELSE withMoved(L, [active EXCEPT !.position = target])

moveHorizontal(L, direction) ==
  IF ~accepting(L) THEN L
  ELSE moveTo(L, L.internal.session.active[1],
              Pt(L.internal.session.active[1].position.row,
                 L.internal.session.active[1].position.col
                   + (IF direction = "left" THEN -1 ELSE 1)))

rotated(L, result) ==
  IF ~result.success THEN L ELSE withMoved(L, result.piece)

rotatePiece(L, direction) ==
  IF ~accepting(L) THEN L
  ELSE rotated(L, attemptSrsRotation(L.internal.session.active[1], direction,
                                     L.internal.session.board,
                                     L.opts.width, L.opts.height))

softDropTo(L, active, target) ==
  IF checkCollision(L.internal.session.board,
                    getPieceShape(active.type, active.rotation), target).collides
  THEN [L EXCEPT !.internal.pendingLockReset = TRUE]
  ELSE [L EXCEPT !.internal.session.active =
                    <<[active EXCEPT !.position = target]>>,
                 !.internal.session.stats =
                    applySoftDrop(L.internal.session.stats, 1),
                 !.internal.session.ghost =
                    computeGhostPosition(L.internal.session.board,
                                         <<[active EXCEPT !.position = target]>>),
                 !.internal.pendingLockReset = TRUE]

softDrop(L) ==
  IF ~accepting(L) THEN L
  ELSE softDropTo(L, L.internal.session.active[1],
                  Pt(L.internal.session.active[1].position.row + 1,
                     L.internal.session.active[1].position.col))

\* variant of hardDropBy that locks only once the lock delay has begun, and
\* otherwise leaves the piece where it landed
hardDropByAfterDelay(L, active, distance) ==
  IF L.internal.gravity.isLocking
  THEN lockActivePiece(
         IF distance > 0
         THEN [L EXCEPT !.internal.session.active =
                           <<[active EXCEPT
                                !.position = Pt(active.position.row + distance,
                                                active.position.col)]>>,
                        !.internal.session.stats =
                           applyHardDrop(L.internal.session.stats, distance)]
         ELSE L,
         TRUE)
  ELSE [L EXCEPT !.internal.session.active =
                    <<[active EXCEPT
                         !.position = Pt(active.position.row + distance,
                                         active.position.col)]>>]

\* hardDrop after its descent loop found the distance
hardDropBy(L, active, distance) ==
  lockActivePiece(
    IF distance > 0
    THEN [L EXCEPT !.internal.session.active =
                      <<[active EXCEPT
                           !.position = Pt(active.position.row + distance,
                                           active.position.col)]>>,
                   !.internal.session.stats =
                      applyHardDrop(L.internal.session.stats, distance)]
    ELSE L,
    TRUE)

hardDrop(L) ==
  IF ~accepting(L) THEN L
  ELSE hardDropBy(L, L.internal.session.active[1],
                  descend(L.internal.session.board, activeShape(L),
                          L.internal.session.active[1].position, 0))

\* the end of handleHold, from the test of the spawn on
holdSpawned(L, holdResult, nextQueueState, spawn) ==
  IF spawn = <<>>
  THEN [dispatch(L, "gameOver") EXCEPT
          !.internal.running = FALSE,
          !.internal.hold = holdResult.state,
          !.internal.session.hold = holdResult.state.slot,
          !.internal.session.active = <<>>,
          !.internal.session.ghost = <<>>]
  ELSE dispatch(
         [L EXCEPT
            !.internal.hold = holdResult.state,
            !.internal.nextQueue = nextQueueState,
            !.internal.session.hold = holdResult.state.slot,
            !.internal.session.active = spawn,
            !.internal.session.nextQueue = nextQueueState.queue,
            !.internal.session.rng = nextQueueState.rng,
            !.internal.session.ghost =
               computeGhostPosition(L.internal.session.board, spawn),
            !.internal.gravity = createGravityState,
            !.internal.pendingLockReset = FALSE],
         "useHold")

holdAdvanced(L, holdResult, nextQueueState) ==
  holdSpawned(L, holdResult, nextQueueState,
              spawnPiece(IF holdResult.consumesQueue THEN nextQueueState.active
                         ELSE holdResult.nextActive,
                         INITIAL_ROTATION, L.internal.session.board))

\* handleHold after performHold; a throw of performHold makes it return
holdPerformed(L, holdResult) ==
  IF holdResult.threw THEN L
  ELSE holdAdvanced(L, holdResult,
                    IF holdResult.consumesQueue
                    THEN advanceQueue(L.internal.nextQueue)
                    ELSE L.internal.nextQueue)

handleHold(L) ==
  IF ~accepting(L) \/ ~L.machine.holdAvailable THEN L
  ELSE IF L.internal.hold.slot = "null" /\ Len(L.internal.nextQueue.queue) = 0
  THEN L
  ELSE holdPerformed(L, performHold(L.internal.hold,
                                    L.internal.session.active[1].type,
                                    IF L.internal.hold.slot = "null"
                                    THEN Head(L.internal.nextQueue.queue)
                                    ELSE "null"))

\* variant of tickContext that never passes the reset signal
tickContextNoReset(L, deltaMs, grounded) ==
  [deltaMs |-> deltaMs, frames |-> 1, grounded |-> grounded,
   resetLock |-> FALSE]

\* the context processTick hands to stepGravity
tickContext(L, deltaMs, grounded) ==
  [deltaMs |-> deltaMs, frames |-> 1, grounded |-> grounded,
   resetLock |-> grounded /\ L.internal.pendingLockReset]

\* the assignment after stepGravity
tickStored(L, gravityResult) ==
  [L EXCEPT !.internal.gravity = gravityResult.state,
            !.internal.pendingLockReset = FALSE]

\* the branch `if (grounded)` of processTick
tickOnGround(L1, gravityResult) ==
  IF gravityResult.shouldLock THEN lockActivePiece(L1, FALSE)
  ELSE [L1 EXCEPT !.internal.session.lock =
                     mapLockSnapshot(gravityResult.state)]

\* the last assignment of processTick
tickMoved(L1, updatedPiece, gravityAfter) ==
  [L1 EXCEPT !.internal.gravity = gravityAfter,
             !.internal.session.active = <<updatedPiece>>,
             !.internal.session.ghost =
                computeGhostPosition(L1.internal.session.board, <<updatedPiece>>),
             !.internal.session.lock = mapLockSnapshot(gravityAfter)]

\* variant of tickDescend that moves the piece dropRows rows without testing
\* the rows it passes
tickDescendUntested(L1, active, dropRows, free) ==
  tickMoved(L1,
            [active EXCEPT
               !.position = Pt(active.position.row + dropRows,
                               active.position.col)],
            L1.internal.gravity)

\* the descent loop: the piece moves dropRows rows or, when fewer rows are
\* free, the free rows, and then the loop steps the gravity once more
tickDescend(L1, active, dropRows, free) ==
  tickMoved(L1,
            [active EXCEPT
               !.position = Pt(active.position.row
                                 + (IF dropRows <= free THEN dropRows ELSE free),
                               active.position.col)],
            IF dropRows > free
            THEN stepGravity(L1.internal.gravity, L1.internal.gravityConfig,
                             [deltaMs |-> 0, frames |-> 0, grounded |-> TRUE,
                              resetLock |-> FALSE]).state
            ELSE L1.internal.gravity)

tickStepped(L, active, shape, grounded, gravityResult) ==
  IF grounded THEN tickOnGround(tickStored(L, gravityResult), gravityResult)
  ELSE tickDescend(tickStored(L, gravityResult), active, gravityResult.dropRows,
                   descend(L.internal.session.board, shape, active.position, 0))

tickGrounded(L, deltaMs, active, shape, grounded) ==
  tickStepped(L, active, shape, grounded,
              stepGravity(L.internal.gravity, L.internal.gravityConfig,
                          tickContext(L, deltaMs, grounded)))

processTick(L, deltaMs) ==
  IF ~accepting(L) THEN L
  ELSE tickGrounded(L, deltaMs, L.internal.session.active[1], activeShape(L),
                    isGrounded(L))

\* the last assignment of startGame and the dispatch of start
startWith(L1, baseBoard, activePiece) ==
  dispatch(
    [L1 EXCEPT
       !.internal.running = TRUE,
       !.internal.hold = createHoldState,
       !.internal.session.board = baseBoard,
       !.internal.session.active = activePiece,
       !.internal.session.hold = "null",
       !.internal.session.stats = createInitialStats,
       !.internal.session.ghost = computeGhostPosition(baseBoard, activePiece),
       !.internal.session.lock = mapLockSnapshot(L1.internal.gravity)],
    "start")

startSpawn(L1, baseBoard) ==
  startWith(L1, baseBoard,
            spawnPiece(L1.internal.nextQueue.active, INITIAL_ROTATION, baseBoard))

startGame(L, defaultSeed) ==
  startSpawn(updateSpeed(ensureNextQueue(resetStateMachine(L), L.opts.seed,
                                         defaultSeed),
                         L.opts.initialLevel),
             createEmptyBoard(L.opts.height, L.opts.width))

\* variant of stopGame that keeps the stats of the session
stopGameKeepsStats(L, defaultSeed) ==
  [resetStateMachine(L) EXCEPT
     !.internal =
        [createInitialInternalState(L.opts.width, L.opts.height,
                                    L.opts.initialLevel, L.opts.seed,
                                    defaultSeed)
           EXCEPT !.session.stats = L.internal.session.stats]]

stopGame(L, defaultSeed) ==
  [resetStateMachine(L) EXCEPT
     !.internal = createInitialInternalState(L.opts.width, L.opts.height,
                                             L.opts.initialLevel, L.opts.seed,
                                             defaultSeed)]

\* the board debugForceGameOver builds: every cell occupied, type kept or 'I'
filledBoard(board) ==
  [r \in 1..Len(board) |->
    [c \in 1..Len(board[r]) |->
      [occupied |-> TRUE,
       type |-> IF board[r][c].type = "none" THEN "I" ELSE board[r][c].type]]]

debugForceGameOver(L) ==
  dispatch([L EXCEPT !.internal.running = FALSE,
                     !.internal.session.board =
                        filledBoard(L.internal.session.board),
                     !.internal.session.active = <<>>,
                     !.internal.session.ghost = <<>>],
           "gameOver")

\* applyInput for an input record [type, direction]
applyInput(L, input) ==
  CASE input.type = "move" -> moveHorizontal(L, input.direction)
    [] input.type = "rotate" -> rotatePiece(L, input.direction)
    [] input.type = "softDrop" -> softDrop(L)
    [] input.type = "hardDrop" -> hardDrop(L)
    [] input.type = "hold" -> handleHold(L)
    [] input.type = "pause" -> dispatch(L, "pause")
    [] input.type = "resume" -> dispatch(L, "resume")
    [] OTHER -> L

(***************************************************************************)
(* The listeners.  listeners is the Set of createGameLoop in its insertion *)
(* order; subs holds, for every call of subscribe, the listener passed and *)
(* the `active` flag of the function returned.                             *)
(***************************************************************************)
listenerSeqHas(listeners, listener) ==
  \E k \in 1..Len(listeners) : listeners[k] = listener

listenerSeqWithout(listeners, listener) ==
  SelectSeq(listeners, LAMBDA x : x # listener)

noListeners == [listeners |-> <<>>, subs |-> <<>>]

\* Set.add keeps the place of a listener that is already in the set
subscribe(S, listener) ==
  [listeners |-> IF listenerSeqHas(S.listeners, listener) THEN S.listeners
                 ELSE Append(S.listeners, listener),
   subs |-> Append(S.subs, [listener |-> listener, active |-> TRUE])]

\* variant of unsubscribe without the `active` flag
unsubscribeUnguarded(S, i) ==
  [listeners |-> listenerSeqWithout(S.listeners, S.subs[i].listener),
   subs |-> [S.subs EXCEPT ![i].active = FALSE]]

\* the function the i-th call of subscribe returned
unsubscribe(S, i) ==
  IF ~S.subs[i].active THEN S
  ELSE [listeners |-> listenerSeqWithout(S.listeners, S.subs[i].listener),
        subs |-> [S.subs EXCEPT ![i].active = FALSE]]

\* the listeners emitState calls, in the order of the calls
emitState(S) == S.listeners

(***************************************************************************)
(* Snapshots.  Objects and arrays live in a heap, a sequence whose indices *)
(* are the references; a field holds a primitive value or a reference.     *)
(* An array is an object whose fields are its indices.                     *)
(***************************************************************************)
Prim(v) == [ref |-> FALSE, at |-> 0, prim |-> v]
Ref(a) == [ref |-> TRUE, at |-> a, prim |-> ""]

refFields(obj) == {f \in DOMAIN obj : obj[f].ref}

\* a copy of the object at a whose references are copied as well, down to
\* depth levels; below that the copy holds the references of the original
RECURSIVE copyTo(_, _, _)
RECURSIVE copyFields(_, _, _, _)
copyTo(heap, a, depth) ==
  LET r == copyFields(heap, heap[a], refFields(heap[a]), depth)
  IN  [heap |-> Append(r.heap, r.obj), at |-> Len(r.heap) + 1]

copyFields(heap, obj, fields, depth) ==
  IF depth = 0 \/ fields = {} THEN [heap |-> heap, obj |-> obj]
  ELSE LET f == CHOOSE x \in fields : TRUE
           c == copyTo(heap, obj[f].at, depth - 1)
       IN  copyFields(c.heap, [obj EXCEPT ![f] = Ref(c.at)], fields \ {f},
                      depth)

\* a table of copy depths in which the rows of the board are copied and
\* their cells are not
CloneDepthSharedCells ==
  [board |-> 1, active |-> 1, nextQueue |-> 0, rng |-> 1, stats |-> 0,
   speed |-> 0, lock |-> 0, ghost |-> 0]

\* the levels cloneSessionState copies under each field of the session:
\* board.map(row => row.map(cell => ({...cell}))) copies the board, its rows
\* and their cells; active is copied with its position, rng with its two
\* arrays; the others are copied themselves
CloneDepth ==
  [board |-> 2, active |-> 1, nextQueue |-> 0, rng |-> 1, stats |-> 0,
   speed |-> 0, lock |-> 0, ghost |-> 0]

\* the object literal cloneSessionState returns: the fields that hold a
\* reference are copied to their depth, null and primitive fields by value
RECURSIVE cloneSessionFields(_, _, _)
cloneSessionFields(heap, obj, fields) ==
  IF fields = {} THEN [heap |-> heap, obj |-> obj]
  ELSE LET f == CHOOSE x \in fields : TRUE
           c == copyTo(heap, obj[f].at, CloneDepth[f])
       IN  cloneSessionFields(c.heap, [obj EXCEPT ![f] = Ref(c.at)],
                              fields \ {f})

cloneSessionState(heap, state) ==
  LET r == cloneSessionFields(heap, heap[state], refFields(heap[state]))
  IN  [heap |-> Append(r.heap, r.obj), at |-> Len(r.heap) + 1]

(***************************************************************************)
(* The sessions.  loop is one session; twin, when it is not <<>>, is a      *)
(* second session created with the same options and driven by the same     *)
(* calls; grav is a stepGravity run of its own.                            *)
(***************************************************************************)
VARIABLES loop, twin, grav, call

vars == <<loop, twin, grav, call>>

\* bounds of the model: pieces drawn from the randomizer in one game, and
\* rows soft-dropped in one game (rotation kicks can lift a piece, so soft
\* drops are not bounded by the board)
MaxDraws == 6
MaxSoftDrop == 2

\* generateDefaultSeed runs only when the seed option is absent or empty
defaultSeedChoices(seedOpt) ==
  IF seedOpt # <<>> /\ Len(seedOpt[1]) > 0 THEN {<<>>} ELSE DefaultSeeds

\* the tick lengths the sessions are driven with
Deltas == {500}

\* a 4 x 4 board, on which every piece kind spawns, and a board too narrow
\* for the first piece of seed "a" (an I)
MainOptions ==
  {[seed |-> <<SeedA>>, width |-> 4, height |-> 4, initialLevel |-> 0],
   [seed |-> <<SeedA>>, width |-> 3, height |-> 4, initialLevel |-> 0]}

Inputs ==
  {[type |-> "move", direction |-> d] : d \in {"left", "right"}}
  \cup {[type |-> "rotate", direction |-> d] : d \in {"cw", "ccw"}}
  \cup {[type |-> t, direction |-> "none"] :
          t \in {"softDrop", "hardDrop", "hold", "pause", "resume"}}

withinBounds(L) ==
  /\ Len(L.internal.session.rng.history) <= MaxDraws
  /\ L.internal.session.stats.dropDistanceSoft <= MaxSoftDrop

Init ==
  /\ \E o \in MainOptions : \E d \in defaultSeedChoices(o.seed) :
       loop = createGameLoop(o, d)
  /\ twin = <<>>
  /\ grav = <<>>
  /\ call = <<>>

Start ==
  /\ \E d \in defaultSeedChoices(loop.opts.seed) : loop' = startGame(loop, d)
  /\ UNCHANGED <<twin, grav, call>>

Stop ==
  /\ \E d \in defaultSeedChoices(loop.opts.seed) : loop' = stopGame(loop, d)
  /\ UNCHANGED <<twin, grav, call>>

Tick ==
  /\ \E deltaMs \in Deltas : loop' = processTick(loop, deltaMs)
  /\ withinBounds(loop')
  /\ UNCHANGED <<twin, grav, call>>

Input ==
  /\ \E input \in Inputs : loop' = applyInput(loop, input)
  /\ withinBounds(loop')
  /\ UNCHANGED <<twin, grav, call>>

ForceGameOver ==
  /\ loop' = debugForceGameOver(loop)
  /\ UNCHANGED <<twin, grav, call>>

Next == Start \/ Stop \/ Tick \/ Input \/ ForceGameOver

Spec == Init /\ [][Next]_vars

(***************************************************************************)
(* Sessions created with an initial level: the 4 x 4 board of the main     *)
(* specification, begun at level 0 and at level 2, under the operations of *)
(* the main specification.                                                 *)
(***************************************************************************)
LevelOptions ==
  {[seed |-> <<SeedA>>, width |-> 4, height |-> 4, initialLevel |-> l] :
     l \in {0, 2}}

LevelInit ==
  /\ \E o \in LevelOptions : \E d \in defaultSeedChoices(o.seed) :
       loop = createGameLoop(o, d)
  /\ twin = <<>>
  /\ grav = <<>>
  /\ call = <<>>

SpecLevel == LevelInit /\ [][Next]_vars

(***************************************************************************)
(* Long frames: the 4 x 4 session under ticks whose elapsed time covers    *)
(* several gravity intervals, so that a tick asks for more rows than are   *)
(* free beneath the piece.                                                 *)
(***************************************************************************)
FallDeltas == {500, 1000, 3000}

FallOptions ==
  {[seed |-> <<SeedA>>, width |-> 4, height |-> 4, initialLevel |-> 0]}

FallInit ==
  /\ \E o \in FallOptions : \E d \in defaultSeedChoices(o.seed) :
       loop = createGameLoop(o, d)
  /\ twin = <<>>
  /\ grav = <<>>
  /\ call = <<>>

FallTick ==
  /\ \E deltaMs \in FallDeltas : loop' = processTick(loop, deltaMs)
  /\ withinBounds(loop')
  /\ UNCHANGED <<twin, grav, call>>

FallNext == Start \/ FallTick \/ Input

SpecFall == FallInit /\ [][FallNext]_vars

(***************************************************************************)
(* Play under a frame clock: the 4 x 4 session, started once.  The clock   *)
(* of the caller's frame loop makes a frame due, the tick of a due frame   *)
(* has positive elapsed time, and the inputs that mark a lock reset        *)
(* (moves, rotations, soft drops) arrive at any time.  The clock is weakly *)
(* fair; the inputs are the player's and carry no fairness.  frames is the *)
(* parity of the number of ticks made.                                     *)
(***************************************************************************)
LiveMaxDraws == 6
LiveDeltas == {500}

LiveInputs ==
  {[type |-> "move", direction |-> d] : d \in {"left", "right"}}
  \cup {[type |-> "rotate", direction |-> d] : d \in {"cw", "ccw"}}
  \cup {[type |-> "softDrop", direction |-> "none"]}

LiveInit ==
  /\ \E o \in FallOptions : \E d \in defaultSeedChoices(o.seed) :
       loop = createGameLoop(o, d)
  /\ twin = <<>>
  /\ grav = <<>>
  /\ call = [due |-> FALSE, frames |-> 0]

LiveStart ==
  /\ loop.internal.session.phase = "ready"
  /\ \E d \in defaultSeedChoices(loop.opts.seed) : loop' = startGame(loop, d)
  /\ UNCHANGED <<twin, grav, call>>

FrameDue ==
  /\ ~call.due
  /\ call' = [call EXCEPT !.due = TRUE]
  /\ UNCHANGED <<loop, twin, grav>>

LiveTick ==
  /\ call.due
  /\ \E deltaMs \in LiveDeltas : loop' = processTick(loop, deltaMs)
  /\ Len(loop'.internal.session.rng.history) <= LiveMaxDraws
  /\ call' = [due |-> FALSE, frames |-> 1 - call.frames]
  /\ UNCHANGED <<twin, grav>>

LiveInput ==
  /\ \E input \in LiveInputs : loop' = applyInput(loop, input)
  /\ withinBounds(loop')
  /\ UNCHANGED <<twin, grav, call>>

\* the session with the clock and the ticks only
TicksNext == LiveStart \/ FrameDue \/ LiveTick

LiveNext == LiveStart \/ FrameDue \/ LiveTick \/ LiveInput

SpecTicksOnly == LiveInit /\ [][TicksNext]_vars /\ WF_vars(FrameDue)

SpecLive == LiveInit /\ [][LiveNext]_vars /\ WF_vars(FrameDue)

(***************************************************************************)
(* Low boards: sessions on boards two rows high, four and five columns     *)
(* wide, under the operations of the main specification.                   *)
(***************************************************************************)
LowOptions ==
  {[seed |-> <<SeedA>>, width |-> w, height |-> 2, initialLevel |-> 0] :
     w \in {4, 5}}

LowInit ==
  /\ \E o \in LowOptions : \E d \in defaultSeedChoices(o.seed) :
       loop = createGameLoop(o, d)
  /\ twin = <<>>
  /\ grav = <<>>
  /\ call = <<>>

SpecLow == LowInit /\ [][Next]_vars

(***************************************************************************)
(* Two sessions side by side: created from the same options, each call is   *)
(* made on both.  Where the code asks generateDefaultSeed for a seed, each  *)
(* session gets its own answer.                                            *)
(***************************************************************************)
TwinMaxDraws == 8

\* the empty string, as a seed
EmptySeed == <<>>

TwinOptions ==
  {[seed |-> <<SeedA>>, width |-> 4, height |-> 2, initialLevel |-> 0],
   [seed |-> <<EmptySeed>>, width |-> 4, height |-> 2, initialLevel |-> 0]}

twinBounds(L) ==
  /\ Len(L.internal.session.rng.history) <= TwinMaxDraws
  /\ L.internal.session.stats.dropDistanceSoft <= MaxSoftDrop

TwinInit ==
  /\ \E o \in TwinOptions : \E d1, d2 \in defaultSeedChoices(o.seed) :
       /\ loop = createGameLoop(o, d1)
       /\ twin = <<createGameLoop(o, d2)>>
  /\ grav = <<>>
  /\ call = <<>>

TwinStart ==
  /\ \E d1, d2 \in defaultSeedChoices(loop.opts.seed) :
       /\ loop' = startGame(loop, d1)
       /\ twin' = <<startGame(twin[1], d2)>>
  /\ UNCHANGED <<grav, call>>

TwinStop ==
  /\ \E d1, d2 \in defaultSeedChoices(loop.opts.seed) :
       /\ loop' = stopGame(loop, d1)
       /\ twin' = <<stopGame(twin[1], d2)>>
  /\ UNCHANGED <<grav, call>>

TwinTick ==
  /\ \E deltaMs \in Deltas :
       /\ loop' = processTick(loop, deltaMs)
       /\ twin' = <<processTick(twin[1], deltaMs)>>
  /\ twinBounds(loop') /\ twinBounds(twin'[1])
  /\ UNCHANGED <<grav, call>>

TwinInput ==
  /\ \E input \in Inputs :
       /\ loop' = applyInput(loop, input)
       /\ twin' = <<applyInput(twin[1], input)>>
  /\ twinBounds(loop') /\ twinBounds(twin'[1])
  /\ UNCHANGED <<grav, call>>

TwinNext == TwinStart \/ TwinStop \/ TwinTick \/ TwinInput

SpecTwin == TwinInit /\ [][TwinNext]_vars

(***************************************************************************)
(* stepGravity on its own: a run starts from createGravityState under one  *)
(* of the configurations and applies stepGravity to contexts drawn from a   *)
(* small set.  grav.last is the latest application; grav.steps and          *)
(* grav.totalMs count the steps and the time of the run for as long as      *)
(* every step was grounded, one frame long and without the reset signal     *)
(* (grav.clean).                                                            *)
(***************************************************************************)
MaxLockMs == 510
MaxLockFrames == 16

\* the configuration updateSpeed builds at level 0, one with short delays and
\* no gravity, and one whose frame threshold is 0
OrchestratorConfig ==
  [gravityMs |-> gravityMsForLevel(0), lockDelayMs |-> LOCK_DELAY_MS,
   lockDelayFrames |-> LOCK_DELAY_FRAMES]

GravityConfigs ==
  {OrchestratorConfig,
   [gravityMs |-> 0, lockDelayMs |-> 20, lockDelayFrames |-> 3],
   [gravityMs |-> 250, lockDelayMs |-> 250, lockDelayFrames |-> 0]}

GravityDeltas == {0, 10, 250, 600}

GravityContexts ==
  [deltaMs : GravityDeltas, frames : 0..1, grounded : BOOLEAN,
   resetLock : BOOLEAN]

GravityInit ==
  /\ loop = <<>>
  /\ twin = <<>>
  /\ call = <<>>
  /\ \E config \in GravityConfigs :
       grav = [state |-> createGravityState, config |-> config, clean |-> TRUE,
               steps |-> 0, totalMs |-> 0, last |-> <<>>]

GravityStep ==
  /\ \E context \in GravityContexts :
       LET result == stepGravity(grav.state, grav.config, context)
           clean == /\ grav.clean /\ context.grounded /\ context.frames = 1
                    /\ ~context.resetLock
       IN  /\ result.state.lockElapsedMs <= MaxLockMs
           /\ result.state.lockFrames <= MaxLockFrames
           /\ grav' = [state |-> result.state,
                       config |-> grav.config,
                       clean |-> clean,
                       steps |-> IF clean THEN grav.steps + 1 ELSE 0,
                       totalMs |-> IF clean THEN grav.totalMs + context.deltaMs
                                   ELSE 0,
                       last |-> <<[before |-> grav.state, context |-> context,
                                   result |-> result]>>]
  /\ UNCHANGED <<loop, twin, call>>

GravityNext == GravityStep

SpecGravity == GravityInit /\ [][GravityNext]_vars

(***************************************************************************)
(* The rotation specification: attemptSrsRotation applied, again and       *)
(* again, to every piece that fits on a small board that is empty or has   *)
(* one locked cell.                                                        *)
(***************************************************************************)
SrsRows == 7
SrsCols == 7

SrsBoards ==
  {createEmptyBoard(SrsRows, SrsCols)}
  \cup {[createEmptyBoard(SrsRows, SrsCols) EXCEPT ![rc[1]][rc[2]] =
           [occupied |-> TRUE, type |-> "S"]] :
          rc \in (1..SrsRows) \X (1..SrsCols)}

\* the pieces that fit on the board
SrsPieces(board) ==
  {piece \in [type : PieceKinds, rotation : 0..3,
              position : {Pt(r, c) : r \in 0..(SrsRows - 1),
                                     c \in 0..(SrsCols - 1)}] :
     canPlaceOnBoard(board, getPieceShape(piece.type, piece.rotation),
                     piece.position)}

SrsInit ==
  /\ loop = <<>>
  /\ twin = <<>>
  /\ grav = <<>>
  /\ \E board \in SrsBoards : \E piece \in SrsPieces(board) :
       call = [board |-> board, piece |-> piece, rotated |-> <<>>]

\* the state after one call: the piece returned, beside the call made
afterRotation(c, direction, result) ==
  [board |-> c.board,
   piece |-> result.piece,
   rotated |-> <<[from |-> c.piece, direction |-> direction,
                  result |-> result]>>]

RotateStep ==
  /\ \E direction \in {"cw", "ccw"} :
       call' = afterRotation(call, direction,
                             attemptSrsRotation(call.piece, direction,
                                                call.board, SrsCols, SrsRows))
  /\ UNCHANGED <<loop, twin, grav>>

SrsNext == RotateStep

SpecSrs == SrsInit /\ [][SrsNext]_vars

(***************************************************************************)
(* The wide specification: one session on a board of 5 x 5 cells, wide     *)
(* enough for a row to be completed by three pieces, driven by moves,      *)
(* rotations and hard drops.                                               *)
(***************************************************************************)
WideMaxDraws == 7

WideOptions ==
  {[seed |-> <<SeedA>>, width |-> 5, height |-> 5, initialLevel |-> 0]}

WideInputs ==
  {[type |-> "move", direction |-> d] : d \in {"left", "right"}}
  \cup {[type |-> "rotate", direction |-> d] : d \in {"cw", "ccw"}}
  \cup {[type |-> "hardDrop", direction |-> "none"]}

WideInit ==
  /\ \E o \in WideOptions : \E d \in defaultSeedChoices(o.seed) :
       loop = createGameLoop(o, d)
  /\ twin = <<>>
  /\ grav = <<>>
  /\ call = <<>>

WideStart ==
  /\ \E d \in defaultSeedChoices(loop.opts.seed) : loop' = startGame(loop, d)
  /\ UNCHANGED <<twin, grav, call>>

WideInput ==
  /\ \E input \in WideInputs : loop' = applyInput(loop, input)
  /\ Len(loop'.internal.session.rng.history) <= WideMaxDraws
  /\ UNCHANGED <<twin, grav, call>>

WideNext == WideStart \/ WideInput

SpecWide == WideInit /\ [][WideNext]_vars

(***************************************************************************)
(* The board specification: lockPiece, checkCollision and                  *)
(* computeGhostPosition applied to every occupancy of a small board, for   *)
(* pieces placed on it and hanging over its edges.                         *)
(***************************************************************************)
BoardRows == 4
BoardCols == 3

\* a cell locked earlier
FilledCell == [occupied |-> TRUE, type |-> "S"]

\* the boards of BoardRows x BoardCols cells, each cell empty or locked
BoardInputs ==
  {[r \in 1..BoardRows |-> [c \in 1..BoardCols |->
       IF <<r, c>> \in filled THEN FilledCell ELSE EmptyCell]] :
     filled \in SUBSET ((1..BoardRows) \X (1..BoardCols))}

\* the pieces locked: kinds, rotations and origins
LockTypes == {"I", "O", "T", "L"}
LockRotations == {0, 1}
LockPositions == {Pt(r, c) : r \in 0..(BoardRows - 2), c \in -1..1}

\* the shapes tested for collision: a square, and shapes whose bounding box
\* has an empty column or an empty row
CollisionShapes ==
  {<<<<TRUE, TRUE>>, <<TRUE, TRUE>>>>,
   <<<<FALSE, TRUE>>, <<FALSE, TRUE>>>>,
   <<<<TRUE, TRUE>>, <<FALSE, FALSE>>>>}
CollisionPositions ==
  {Pt(r, c) : r \in -1..(BoardRows - 1), c \in -1..(BoardCols - 1)}

\* the pieces projected: none, or one of the pieces locked
GhostPieces ==
  {<<>>} \cup {<<[type |-> type, rotation |-> rotation, position |-> position]>> :
                 type \in LockTypes, rotation \in LockRotations,
                 position \in LockPositions}

\* each behaviour makes one call
noCallYet ==
  call.locked = <<>> /\ call.collided = <<>> /\ call.ghosted = <<>>

BoardInit ==
  /\ loop = <<>>
  /\ twin = <<>>
  /\ grav = <<>>
  /\ \E board \in BoardInputs :
       call = [board |-> board, locked |-> <<>>, collided |-> <<>>,
               ghosted |-> <<>>]

\* one call of lockPiece on the board of the state, which is kept beside
\* the result
LockStep ==
  /\ noCallYet
  /\ \E type \in LockTypes, rotation \in LockRotations,
        position \in LockPositions :
       call' = [call EXCEPT
                !.locked = <<[shape |-> getPieceShape(type, rotation),
                              position |-> position,
                              type |-> type,
                              result |-> lockPiece(call.board,
                                                   getPieceShape(type, rotation),
                                                   position, type)]>>]
  /\ UNCHANGED <<loop, twin, grav>>

\* one call of checkCollision, and of canPlace, on the board of the state
CollideStep ==
  /\ noCallYet
  /\ \E shape \in CollisionShapes, position \in CollisionPositions :
       call' = [call EXCEPT
                !.collided = <<[shape |-> shape,
                                position |-> position,
                                report |-> checkCollision(call.board, shape,
                                                          position),
                                canPlace |-> canPlaceOnBoard(call.board, shape,
                                                             position)]>>]
  /\ UNCHANGED <<loop, twin, grav>>

\* one call of computeGhostPosition on the board of the state
GhostStep ==
  /\ noCallYet
  /\ \E piece \in GhostPieces :
       call' = [call EXCEPT
                !.ghosted = <<[piece |-> piece,
                               result |-> computeGhostPosition(call.board,
                                                               piece)]>>]
  /\ UNCHANGED <<loop, twin, grav>>

BoardNext == LockStep \/ CollideStep \/ GhostStep

SpecBoard == BoardInit /\ [][BoardNext]_vars

(***************************************************************************)
(* The randomizer specification: pieces drawn one after another from a     *)
(* freshly created randomizer, for seeds of up to two characters and two   *)
(* seeds of the length generateDefaultSeed returns.                        *)
(***************************************************************************)
MaxRngDraws == 22

SeedChars == {48, 97, 98}

RngSeeds ==
  {<<>>} \cup {<<a>> : a \in SeedChars}
  \cup {<<a, b>> : a \in SeedChars, b \in SeedChars}
  \cup DefaultSeeds

\* generated lists the history lengths at which generateBag was called
RngInit ==
  /\ loop = <<>>
  /\ twin = <<>>
  /\ grav = <<>>
  /\ \E seed \in RngSeeds :
       call = [rng |-> createSevenBagRng(seed), generated |-> <<0>>]

DrawStep ==
  /\ Len(call.rng.history) < MaxRngDraws
  /\ call' = [rng |-> drawNextPiece(call.rng).state,
              generated |-> IF Len(call.rng.bag) = 0
                            THEN Append(call.generated, Len(call.rng.history))
                            ELSE call.generated]
  /\ UNCHANGED <<loop, twin, grav>>

RngNext == DrawStep

SpecRng == RngInit /\ [][RngNext]_vars

(***************************************************************************)
(* The scoring specification: the stats a session starts with, taken       *)
(* through the three updates the orchestrator applies to them: a line      *)
(* clear of 1 to 4 rows at a lock, one cell of soft drop, a hard drop.     *)
(***************************************************************************)
MaxLines == 21
MaxSoftCells == 1
MaxHardCells == 2

ScoreInit ==
  /\ loop = <<>>
  /\ twin = <<>>
  /\ grav = <<>>
  /\ call = [stats |-> createInitialStats, last |-> <<>>]

\* the state after one update: the stats returned, beside the call made
afterScoring(op, amount, stats) ==
  [stats |-> stats,
   last |-> <<[op |-> op, amount |-> amount, before |-> call.stats]>>]

ScoreStep ==
  /\ \/ \E n \in 1..4 :
          call' = afterScoring("lineClear", n, applyLineClear(call.stats, n))
     \/ call' = afterScoring("softDrop", 1, applySoftDrop(call.stats, 1))
     \/ \E d \in 1..MaxHardCells :
          call' = afterScoring("hardDrop", d, applyHardDrop(call.stats, d))
  /\ call'.stats.lines <= MaxLines
  /\ call'.stats.dropDistanceSoft <= MaxSoftCells
  /\ call'.stats.dropDistanceHard <= MaxHardCells
  /\ UNCHANGED <<loop, twin, grav>>

ScoreNext == ScoreStep

SpecScore == ScoreInit /\ [][ScoreNext]_vars

(***************************************************************************)
(* The listener specification: subscribe, the functions it returned and    *)
(* emitState, called in any order for three listener functions.            *)
(* call.doubled records that a listener was subscribed while it was        *)
(* subscribed already; call.notified is the order of the latest emit.      *)
(***************************************************************************)
MaxSubscriptions == 4

ListenerIds == {"f", "g", "h"}

ListenInit ==
  /\ loop = <<>>
  /\ twin = <<>>
  /\ grav = <<>>
  /\ call = [reg |-> noListeners, doubled |-> FALSE, notified |-> <<>>,
             last |-> <<>>]

Subscribe ==
  /\ Len(call.reg.subs) < MaxSubscriptions
  /\ \E listener \in ListenerIds :
       call' = [reg |-> subscribe(call.reg, listener),
                doubled |-> call.doubled
                            \/ listenerSeqHas(call.reg.listeners, listener),
                notified |-> call.notified,
                last |-> <<[op |-> "subscribe", sub |-> Len(call.reg.subs) + 1,
                            before |-> call.reg]>>]
  /\ UNCHANGED <<loop, twin, grav>>

Unsubscribe ==
  /\ \E i \in 1..Len(call.reg.subs) :
       call' = [reg |-> unsubscribe(call.reg, i),
                doubled |-> call.doubled,
                notified |-> call.notified,
                last |-> <<[op |-> "unsubscribe", sub |-> i,
                            before |-> call.reg]>>]
  /\ UNCHANGED <<loop, twin, grav>>

Emit ==
  /\ call' = [reg |-> call.reg,
              doubled |-> call.doubled,
              notified |-> emitState(call.reg),
              last |-> <<[op |-> "emit", sub |-> 0, before |-> call.reg]>>]
  /\ UNCHANGED <<loop, twin, grav>>

ListenNext == Subscribe \/ Unsubscribe \/ Emit

SpecListeners == ListenInit /\ [][ListenNext]_vars

(***************************************************************************)
(* The snapshot specification: a session in the heap, getState called on   *)
(* it, and the holder of a snapshot writing into whatever the snapshot     *)
(* reaches.                                                                *)
(***************************************************************************)
MaxSnapshots == 2
MaxWrites == 2

\* the objects of the session: a board of one row and two cells, the
\* queue, the randomizer with its arrays, stats, speed and lock
SessionParts ==
  <<[occupied |-> Prim("false"), type |-> Prim("none")],
    [occupied |-> Prim("true"), type |-> Prim("S")],
    ("0" :> Ref(1)) @@ ("1" :> Ref(2)),
    ("0" :> Ref(3)),
    ("0" :> Prim("I")) @@ ("1" :> Prim("O")) @@ ("2" :> Prim("L")),
    ("0" :> Prim("J")) @@ ("1" :> Prim("Z")),
    ("0" :> Prim("T")) @@ ("1" :> Prim("I")),
    [seed |-> Prim("a"), bag |-> Ref(6), history |-> Ref(7)],
    [score |-> Prim("0"), level |-> Prim("0"), lines |-> Prim("0"),
     dropDistanceSoft |-> Prim("0"), dropDistanceHard |-> Prim("0")],
    [gravityMs |-> Prim("1000"), lockDelayMs |-> Prim("500")],
    [isLocking |-> Prim("false"), elapsedMs |-> Prim("0"),
     frames |-> Prim("0")],
    [row |-> Prim("0"), col |-> Prim("0")],
    [type |-> Prim("T"), rotation |-> Prim("0"), position |-> Ref(12)],
    [row |-> Prim("0"), col |-> Prim("0")]>>

\* the session object, with or without an active piece and its ghost
sessionObject(playing) ==
  [board |-> Ref(4),
   active |-> IF playing THEN Ref(13) ELSE Prim("null"),
   hold |-> Prim("null"),
   holdUsedThisTurn |-> Prim("false"),
   nextQueue |-> Ref(5),
   rng |-> Ref(8),
   stats |-> Ref(9),
   speed |-> Ref(10),
   lock |-> Ref(11),
   phase |-> Prim(IF playing THEN "playing" ELSE "ready"),
   ghost |-> IF playing THEN Ref(14) ELSE Prim("null"),
   seed |-> Prim("a")]

\* the references an object reaches, itself included
RECURSIVE reachable(_, _)
reachable(heap, a) ==
  {a} \cup UNION {reachable(heap, heap[a][f].at) : f \in refFields(heap[a])}

\* the value an observer reads from an object
RECURSIVE deepValue(_, _)
deepValue(heap, a) ==
  [f \in DOMAIN heap[a] |->
     IF heap[a][f].ref THEN deepValue(heap, heap[a][f].at)
     ELSE heap[a][f].prim]

SnapInit ==
  /\ loop = <<>>
  /\ twin = <<>>
  /\ grav = <<>>
  /\ \E playing \in BOOLEAN :
       call = [heap |-> Append(SessionParts, sessionObject(playing)),
               session |-> Len(SessionParts) + 1,
               snapshots |-> <<>>,
               writes |-> 0]

\* getState(), and the snapshot emitState hands to the listeners
GetState ==
  /\ Len(call.snapshots) < MaxSnapshots
  /\ call' = [call EXCEPT
                !.heap = cloneSessionState(call.heap, call.session).heap,
                !.snapshots =
                   Append(@, cloneSessionState(call.heap, call.session).at)]
  /\ UNCHANGED <<loop, twin, grav>>

\* the holder of a snapshot assigns to a field of an object it reaches
WriteSnapshot ==
  /\ call.writes < MaxWrites
  /\ \E k \in 1..Len(call.snapshots) :
       \E a \in reachable(call.heap, call.snapshots[k]) :
         \E f \in DOMAIN call.heap[a] :
           /\ ~call.heap[a][f].ref
           /\ call.heap[a][f].prim # "written"
           /\ call' = [call EXCEPT !.heap[a][f] = Prim("written"),
                                   !.writes = @ + 1]
  /\ UNCHANGED <<loop, twin, grav>>

SnapNext == GetState \/ WriteSnapshot

SpecSnapshot == SnapInit /\ [][SnapNext]_vars


(***************************************************************************)
(* Properties.  The properties of the session are stated on loop, the       *)
(* session in its current state, and on the results the operations give     *)
(* when they are applied to it.                                             *)
(***************************************************************************)
\* tick lengths the properties apply a tick with
TickDeltas == {0, 16, 500, 1000}

holdInput == [type |-> "hold", direction |-> "none"]
pauseInput == [type |-> "pause", direction |-> "none"]
resumeInput == [type |-> "resume", direction |-> "none"]

\* a tick of deltaMs locks the active piece
tickLocks(L, deltaMs) ==
  /\ accepting(L)
  /\ isGrounded(L)
  /\ stepGravity(L.internal.gravity, L.internal.gravityConfig,
                 tickContext(L, deltaMs, TRUE)).shouldLock

\* C1: two sessions created with the same seed and options that receive the
\* same start, stop, tick and applyInput calls are in identical session
\* states after every call.
C1_SessionsIdentical ==
  [][twin' # <<>> => twin'[1].internal.session = loop'.internal.session]_vars

\* lock-delay counters a hard drop may meet
CounterSamples ==
  {[fallElapsedMs |-> f, lockElapsedMs |-> ms, lockFrames |-> n, isLocking |-> b] :
     f \in {0, 999}, ms \in {0, 500}, n \in {0, 14}, b \in BOOLEAN}

withCounters(L, g) ==
  [L EXCEPT !.internal.gravity = g,
            !.internal.session.lock = mapLockSnapshot(g)]

\* the row the active piece reaches by descending until the next row collides
landingRow(L) ==
  L.internal.session.active[1].position.row
    + descend(L.internal.session.board, activeShape(L),
              L.internal.session.active[1].position, 0)

\* the result of hardDrop: the piece is stamped where its descent ends, the
\* active piece is then the next piece of the queue or the phase is gameOver,
\* and the lock-delay counters play no part
hardDropLocksAtLanding(L) ==
  LET session == L.internal.session
      active == session.active[1]
      after == applyInput(L, [type |-> "hardDrop", direction |-> "none"])
  IN  /\ \A r \in active.position.row..landingRow(L) :
           ~checkCollision(session.board, activeShape(L),
                           Pt(r, active.position.col)).collides
      /\ checkCollision(session.board, activeShape(L),
                        Pt(landingRow(L) + 1, active.position.col)).collides
      /\ after.internal.session.board =
           lockPiece(session.board, activeShape(L),
                     Pt(landingRow(L), active.position.col), active.type).board
      /\ \/ /\ after.internal.session.phase = "gameOver"
            /\ after.internal.session.active = <<>>
         \/ /\ after.internal.session.phase = "playing"
            /\ after.internal.session.active # <<>>
            /\ after.internal.session.active[1].type = Head(session.nextQueue)
      /\ \A g \in CounterSamples :
           hardDrop(withCounters(L, g)).internal.session
             = after.internal.session

\* the rows below the landing row at which the active piece would not collide
freeRowsBelowLanding(L) ==
  {r \in (landingRow(L) + 1)..Len(L.internal.session.board) :
     ~checkCollision(L.internal.session.board, activeShape(L),
                     Pt(r, L.internal.session.active[1].position.col)).collides}

\* C2 (as stated): a hardDrop input applied in phase playing with an active
\* piece locks that piece within the call, whatever the lock-delay counters
\* are: the piece is stamped into the board at the lowest collision-free row
\* of its column, and afterwards the active piece is the next piece of the
\* queue or the phase is gameOver.
C2_StampedAtLowestFreeRow ==
  accepting(loop) =>
    /\ hardDropLocksAtLanding(loop)
    /\ freeRowsBelowLanding(loop) = {}

\* C2 (amended): a hardDrop input applied in phase playing with an active
\* piece locks that piece within the call, whatever the lock-delay counters
\* are: the piece is stamped into the board at the row where its straight
\* descent from its current row first meets a collision in the next row, and
\* afterwards the active piece is the next piece of the queue or the phase is
\* gameOver.
C2_HardDropLocks == accepting(loop) => hardDropLocksAtLanding(loop)

\* a piece whose lock delay has not begun rests on an overhang, with a free
\* placement further down in its column
C2_Witness ==
  /\ accepting(loop)
  /\ ~loop.internal.gravity.isLocking
  /\ freeRowsBelowLanding(loop) # {}

\* the hold slot takes the active piece of L when a hold input is applied
holdSucceeds(L) ==
  /\ accepting(L)
  /\ L.machine.holdAvailable
  /\ applyInput(L, holdInput) # L
  /\ applyInput(L, holdInput).internal.session.hold
       = L.internal.session.active[1].type

\* C3: after a hold input has succeeded, every further hold input applied
\* before the next piece lock leaves the session unchanged, and the first
\* hold input applied in phase playing after the next lock succeeds again.
C3_HoldOncePerLock ==
  /\ (accepting(loop) /\ loop.machine.holdAvailable) =>
       /\ holdSucceeds(loop)
       /\ ~applyInput(loop, holdInput).machine.holdAvailable
  /\ ~loop.machine.holdAvailable =>
       /\ applyInput(loop, holdInput) = loop
       /\ \A input \in Inputs :
            input.type # "hardDrop" =>
              ~applyInput(loop, input).machine.holdAvailable
       /\ \A deltaMs \in TickDeltas :
            ~tickLocks(loop, deltaMs) =>
              ~processTick(loop, deltaMs).machine.holdAvailable
  /\ (accepting(loop) /\ ~loop.machine.holdAvailable) =>
       /\ hardDrop(loop).machine.phase = "playing" => holdSucceeds(hardDrop(loop))
       /\ \A deltaMs \in TickDeltas :
            (/\ tickLocks(loop, deltaMs)
             /\ processTick(loop, deltaMs).machine.phase = "playing")
              => holdSucceeds(processTick(loop, deltaMs))

\* a hold has been made since the last lock, and the lock a hard drop makes
\* now leaves the session playing
C3_Witness ==
  /\ accepting(loop)
  /\ ~loop.machine.holdAvailable
  /\ loop.internal.session.hold # "null"
  /\ hardDrop(loop).machine.phase = "playing"


PhaseEvents == {"start", "pause", "resume", "gameOver", "useHold", "lock"}

\* a step made by start() or stop(), which replace the phase machine
startOrStop ==
  \E d \in defaultSeedChoices(loop.opts.seed) :
    loop' = startGame(loop, d) \/ loop' = stopGame(loop, d)

\* C4 (as stated): the phase changes only by these transitions: ready to
\* playing on start, playing to paused on pause, paused to playing on resume,
\* and playing to gameOver; a pause outside playing and a resume outside
\* paused change nothing, and no dispatched event leaves gameOver.  The steps
\* of start() and stop() are left out of the test.
C4_OnlyListedTransitions ==
  [][(/\ ~startOrStop
      /\ loop'.machine.phase # loop.machine.phase)
       => <<loop.machine.phase, loop'.machine.phase>>
            \in {<<"ready", "playing">>, <<"playing", "paused">>,
                 <<"paused", "playing">>, <<"playing", "gameOver">>}]_vars

\* C4 (amended): start() leaves the phase playing and stop() leaves it ready,
\* whatever it was; a tick keeps the phase or takes playing to gameOver; an
\* input keeps the phase or takes playing to paused (pause), paused to
\* playing (resume) or playing to gameOver (hardDrop, hold);
\* debugForceGameOver takes every phase to gameOver; a pause outside playing
\* and a resume outside paused change nothing, and no dispatched event leaves
\* gameOver.
C4_PhaseTransitions ==
  /\ loop.internal.session.phase = loop.machine.phase
  /\ \A d \in defaultSeedChoices(loop.opts.seed) :
       /\ startGame(loop, d).machine.phase = "playing"
       /\ stopGame(loop, d).machine.phase = "ready"
  /\ \A deltaMs \in TickDeltas :
       \/ processTick(loop, deltaMs).machine.phase = loop.machine.phase
       \/ /\ loop.machine.phase = "playing"
          /\ processTick(loop, deltaMs).machine.phase = "gameOver"
  /\ \A input \in Inputs :
       \/ applyInput(loop, input).machine.phase = loop.machine.phase
       \/ /\ loop.machine.phase = "playing"
          /\ <<input.type, applyInput(loop, input).machine.phase>>
               \in {<<"pause", "paused">>, <<"hardDrop", "gameOver">>,
                    <<"hold", "gameOver">>}
       \/ /\ loop.machine.phase = "paused"
          /\ input.type = "resume"
          /\ applyInput(loop, input).machine.phase = "playing"
  /\ debugForceGameOver(loop).machine.phase = "gameOver"
  /\ loop.machine.phase # "playing" => applyInput(loop, pauseInput) = loop
  /\ loop.machine.phase # "paused" => applyInput(loop, resumeInput) = loop
  /\ loop.machine.phase = "gameOver" =>
       \A event \in PhaseEvents : dispatch(loop, event) = loop

\* a paused session with a piece in play: resume takes it to playing,
\* debugForceGameOver to gameOver, and pause changes nothing
C4_Witness ==
  /\ loop.machine.phase = "paused"
  /\ loop.internal.session.active # <<>>
  /\ applyInput(loop, resumeInput).machine.phase = "playing"
  /\ debugForceGameOver(loop).machine.phase = "gameOver"

\* L2 differs from L in the phase at most
samePhaseApart(L, L2) ==
  [L2 EXCEPT !.machine.phase = L.machine.phase,
             !.internal.session.phase = L.internal.session.phase] = L

\* C5: while the phase is ready, paused or gameOver, a tick and the inputs
\* move, rotate, softDrop, hardDrop and hold change nothing in the session;
\* pause and resume change at most the phase.
C5_InertOutsidePlaying ==
  /\ loop.machine.phase # "playing" =>
       /\ \A deltaMs \in TickDeltas : processTick(loop, deltaMs) = loop
       /\ \A input \in Inputs :
            input.type \notin {"pause", "resume"} => applyInput(loop, input) = loop
  /\ samePhaseApart(loop, applyInput(loop, pauseInput))
  /\ samePhaseApart(loop, applyInput(loop, resumeInput))

\* a session paused with a piece that has left the spawn row, and with a lock
\* reset pending
C5_Witness ==
  /\ loop.machine.phase = "paused"
  /\ loop.internal.running
  /\ loop.internal.session.active # <<>>
  /\ loop.internal.session.active[1].position.row > 0
  /\ loop.internal.pendingLockReset


\* the spawn placement of a piece kind on a board
spawnPosition(type, board) ==
  Pt(0, (boardWidthOf(board)
           - shapeWidthOf(getPieceShape(type, INITIAL_ROTATION))) \div 2)

\* after is a session in which a piece of kind type was to become active: the
\* piece is active at the spawn placement, or that placement collides and the
\* session is over, without active piece and without ghost
spawnedOrOver(after, type) ==
  IF checkCollision(after.internal.session.board,
                    getPieceShape(type, INITIAL_ROTATION),
                    spawnPosition(type, after.internal.session.board)).collides
  THEN /\ after.machine.phase = "gameOver"
       /\ after.internal.session.phase = "gameOver"
       /\ after.internal.session.active = <<>>
       /\ after.internal.session.ghost = <<>>
  ELSE after.internal.session.active =
         <<[type |-> type, rotation |-> 0,
            position |-> spawnPosition(type, after.internal.session.board)]>>

\* the spawn rule for the piece a lock brings in
spawnRuleAtLock ==
  /\ accepting(loop) =>
       spawnedOrOver(hardDrop(loop), Head(loop.internal.nextQueue.queue))
  /\ \A deltaMs \in TickDeltas :
       tickLocks(loop, deltaMs) =>
         spawnedOrOver(processTick(loop, deltaMs),
                       Head(loop.internal.nextQueue.queue))

\* the spawn rule for the piece a hold brings in
spawnRuleAtHold ==
  (accepting(loop) /\ loop.machine.holdAvailable) =>
    spawnedOrOver(handleHold(loop),
                  IF loop.internal.hold.slot = "null"
                  THEN Head(loop.internal.nextQueue.queue)
                  ELSE loop.internal.hold.slot)

\* the spawn rule for the first piece of a game
spawnRuleAtStart ==
  \A d \in defaultSeedChoices(loop.opts.seed) :
    spawnedOrOver(startGame(loop, d), startGame(loop, d).internal.nextQueue.active)

\* C6: every piece that becomes active (at start, after a lock, after a hold)
\* is placed at row 0, column floor((boardWidth - pieceWidth) / 2), rotation
\* 0; if that placement collides the session goes to gameOver with no active
\* piece and no ghost, and no other spawn position is tried.
C6_SpawnRule == spawnRuleAtStart /\ spawnRuleAtLock /\ spawnRuleAtHold

MoveInputs == {[type |-> "move", direction |-> d] : d \in {"left", "right"}}
RotateInputs == {[type |-> "rotate", direction |-> d] : d \in {"cw", "ccw"}}
softDropInput == [type |-> "softDrop", direction |-> "none"]

\* the lock counters, in the gravity state and in the session's snapshot
lockCountersAre(L, elapsedMs, frames) ==
  /\ L.internal.gravity.lockElapsedMs = elapsedMs
  /\ L.internal.gravity.lockFrames = frames
  /\ L.internal.session.lock.elapsedMs = elapsedMs
  /\ L.internal.session.lock.frames = frames

\* C10: if a successful move, a successful rotation or any softDrop input
\* (successful or blocked) has been applied since the previous tick and the
\* piece is grounded at the next tick, that tick does not lock the piece and
\* leaves the lock counters at elapsedMs = 0 and frames = 0; a move or
\* rotation that was rejected does not reset them.  The inputs leave their
\* mark in pendingLockReset, which only the next tick, a lock or a hold
\* clears.
C10_LockResetOnInput ==
  accepting(loop) =>
    \* a move or rotation is rejected and changes nothing, or it succeeds and
    \* marks the reset; a softDrop marks it in either case
    /\ \A input \in MoveInputs \cup RotateInputs :
         \/ applyInput(loop, input) = loop
         \/ /\ applyInput(loop, input).internal.session.active
                 # loop.internal.session.active
            /\ applyInput(loop, input).internal.pendingLockReset
    /\ applyInput(loop, softDropInput).internal.pendingLockReset
    \* the mark stays until the tick
    /\ loop.internal.pendingLockReset =>
         \A input \in MoveInputs \cup RotateInputs
                        \cup {softDropInput, pauseInput, resumeInput} :
           applyInput(loop, input).internal.pendingLockReset
    \* a grounded tick with the mark does not lock and zeroes the counters
    /\ (loop.internal.pendingLockReset /\ isGrounded(loop)) =>
         \A deltaMs \in TickDeltas :
           /\ processTick(loop, deltaMs).internal.session.active
                = loop.internal.session.active
           /\ processTick(loop, deltaMs).internal.session.board
                = loop.internal.session.board
           /\ lockCountersAre(processTick(loop, deltaMs), 0, 0)
           /\ ~processTick(loop, deltaMs).internal.pendingLockReset
    \* a grounded tick without the mark locks or adds to the counters
    /\ (~loop.internal.pendingLockReset /\ isGrounded(loop)) =>
         \A deltaMs \in TickDeltas :
           \/ tickLocks(loop, deltaMs)
           \/ lockCountersAre(processTick(loop, deltaMs),
                              loop.internal.gravity.lockElapsedMs + deltaMs,
                              loop.internal.gravity.lockFrames + 1)

\* a grounded piece whose lock counters have run and on which a successful
\* move has left its mark, while a move to the other side is rejected
C10_Witness ==
  /\ accepting(loop)
  /\ isGrounded(loop)
  /\ loop.internal.pendingLockReset
  /\ loop.internal.gravity.lockFrames > 0
  /\ loop.internal.gravity.lockElapsedMs > 0
  /\ \E input \in MoveInputs : applyInput(loop, input) = loop


\* C7: starting from a fresh gravity state, with grounded = true, one frame
\* per step, no reset signal and a total elapsed time of at most 500 ms
\* (configuration 500 ms / 15 frames), stepGravity reports shouldLock = false
\* on each of the first 14 steps and shouldLock = true on the 15th.
C7_LocksOnFifteenthFrame ==
  (/\ grav.clean
   /\ grav.config = OrchestratorConfig
   /\ grav.steps \in 1..LOCK_DELAY_FRAMES
   /\ grav.totalMs <= LOCK_DELAY_MS)
    => (grav.last[1].result.shouldLock <=> grav.steps = LOCK_DELAY_FRAMES)

\* fifteen grounded steps of 10 ms each: 150 ms in all, and the last one
\* reports the lock
C7_Witness ==
  /\ grav.clean
  /\ grav.config = OrchestratorConfig
  /\ grav.steps = LOCK_DELAY_FRAMES
  /\ grav.totalMs = 150
  /\ grav.last[1].result.shouldLock

\* C8: stepGravity returns shouldLock = true exactly when grounded is true
\* and the accumulated lockElapsedMs is strictly greater than lockDelayMs or
\* the accumulated lockFrames is at least lockDelayFrames; with exactly
\* lockDelayMs elapsed and fewer than lockDelayFrames frames it does not
\* lock.  Without the reset signal the accumulated counters are the counters
\* before the step plus the step's deltaMs and frames.
C8_LockThresholds ==
  grav.last # <<>> =>
    LET before == grav.last[1].before
        context == grav.last[1].context
        result == grav.last[1].result
    IN  /\ (context.grounded /\ ~context.resetLock) =>
             /\ result.state.lockElapsedMs = before.lockElapsedMs + context.deltaMs
             /\ result.state.lockFrames = before.lockFrames + context.frames
        /\ result.shouldLock <=>
             /\ context.grounded
             /\ \/ result.state.lockElapsedMs > grav.config.lockDelayMs
                \/ result.state.lockFrames >= grav.config.lockDelayFrames
        /\ (/\ result.state.lockElapsedMs = grav.config.lockDelayMs
            /\ result.state.lockFrames < grav.config.lockDelayFrames)
             => ~result.shouldLock

\* a grounded step that brings the elapsed time to lockDelayMs exactly, with
\* fewer frames than lockDelayFrames, and does not lock
C8_Witness ==
  /\ grav.last # <<>>
  /\ grav.last[1].context.grounded
  /\ grav.last[1].context.deltaMs > 0
  /\ grav.last[1].result.state.lockElapsedMs = grav.config.lockDelayMs
  /\ grav.last[1].result.state.lockFrames < grav.config.lockDelayFrames
  /\ ~grav.last[1].result.shouldLock

\* C9: a grounded stepGravity step with resetLock = true sets lockElapsedMs
\* and lockFrames to 0, keeps isLocking true, does not add that step's
\* deltaMs or frames to the counters, and (for positive thresholds) returns
\* shouldLock = false.
C9_ResetZeroesCounters ==
  (/\ grav.last # <<>>
   /\ grav.last[1].context.grounded
   /\ grav.last[1].context.resetLock)
    => /\ grav.last[1].result.state.lockElapsedMs = 0
       /\ grav.last[1].result.state.lockFrames = 0
       /\ grav.last[1].result.state.isLocking
       /\ grav.last[1].result.lockReset
       /\ (grav.config.lockDelayMs > 0 /\ grav.config.lockDelayFrames > 0)
            => ~grav.last[1].result.shouldLock

\* a reset step that carries time and a frame, applied while the lock delay
\* is running with both counters above 0
C9_Witness ==
  /\ grav.last # <<>>
  /\ grav.last[1].context.grounded
  /\ grav.last[1].context.resetLock
  /\ grav.last[1].context.deltaMs > 0
  /\ grav.last[1].context.frames = 1
  /\ grav.last[1].before.isLocking
  /\ grav.last[1].before.lockElapsedMs > 0
  /\ grav.last[1].before.lockFrames > 0
  /\ grav.config.lockDelayFrames > 0

(***************************************************************************)
(* lockPiece: cleared rows and compaction.                                 *)
(***************************************************************************)
\* the board cell (r, c), counted from 1, is occupied once the shape is
\* stamped at position
occupiedAfterStamp(board, shape, position, r, c) ==
  \/ board[r][c].occupied
  \/ /\ r - 1 - position.row \in 0..(Len(shape) - 1)
     /\ c - 1 - position.col \in 0..(shapeWidthOf(shape) - 1)
     /\ shape[r - position.row][c - position.col]

\* the indices, from 0, of the rows that are full once the shape is stamped
fullAfterStamp(board, shape, position) ==
  {r - 1 : r \in {q \in 1..Len(board) :
                    \A c \in 1..Len(board[q]) :
                      occupiedAfterStamp(board, shape, position, q, c)}}

isAscending(seq) == \A i, j \in 1..Len(seq) : i < j => seq[i] < seq[j]

\* the board of the state with the piece of its last call stamped
stampedOf(c) ==
  stampPiece(c.board, c.locked[1].shape, c.locked[1].position,
             c.locked[1].type)

\* the rows of a stamped board that compaction retains, in their order
retainedRows(stamped) ==
  SelectSeq(stamped, LAMBDA row : rowSome(row) /\ ~rowFull(row))

\* the retained rows at the bottom, under empty rows
settled(stamped) ==
  [r \in 1..Len(stamped) |->
     IF r <= Len(stamped) - Len(retainedRows(stamped))
     THEN createEmptyRow(boardWidthOf(stamped))
     ELSE retainedRows(stamped)[r - (Len(stamped)
                                       - Len(retainedRows(stamped)))]]

\* the full rows emptied where they are, every other row where it was
blankedInPlace(stamped) ==
  [r \in 1..Len(stamped) |->
     IF rowFull(stamped[r]) THEN createEmptyRow(boardWidthOf(stamped))
     ELSE stamped[r]]

\* C11: clearedLines holds, in ascending order, exactly the indices of the
\* rows that are full after the piece is stamped, and the returned board has
\* no full row.
C11_ClearedLinesExact ==
  call.locked # <<>> =>
    /\ isAscending(call.locked[1].result.clearedLines)
    /\ {call.locked[1].result.clearedLines[i] :
          i \in 1..Len(call.locked[1].result.clearedLines)}
         = fullAfterStamp(call.board, call.locked[1].shape,
                          call.locked[1].position)
    /\ \A r \in 1..Len(call.locked[1].result.board) :
         ~rowFull(call.locked[1].result.board[r])

\* two rows are cleared by one call, one of them full before the call
C11_Witness ==
  /\ call.locked # <<>>
  /\ Len(call.locked[1].result.clearedLines) = 2
  /\ \E r \in 1..Len(call.board) : rowFull(call.board[r])
  /\ \E r \in 1..Len(call.board) :
       /\ ~rowFull(call.board[r])
       /\ r - 1 \in fullAfterStamp(call.board, call.locked[1].shape,
                                   call.locked[1].position)

\* C12: when lockPiece clears a row, the returned board is the retained rows
\* (not cleared, with an occupied cell) in their order at the bottom, under
\* empty rows, with the height and width of the input board.
C12_CompactedToBottom ==
  (call.locked # <<>> /\ Len(call.locked[1].result.clearedLines) > 0) =>
    call.locked[1].result.board = settled(stampedOf(call))

C14_NoRowAboveEmptyRow ==
  \A r1, r2 \in 1..Len(loop.internal.session.board) :
    (r1 < r2 /\ rowSome(loop.internal.session.board[r1])) =>
      rowSome(loop.internal.session.board[r2])

(***************************************************************************)
(* checkCollision and computeGhostPosition.                                *)
(***************************************************************************)
\* the bounding box of the shape at position is not entirely on the board
boxNotInside(board, shape, position) ==
  \E r \in 0..(Len(shape) - 1), c \in 0..(shapeWidthOf(shape) - 1) :
    \/ position.row + r \notin 0..(Len(board) - 1)
    \/ position.col + c \notin 0..(boardWidthOf(board) - 1)

\* some set cell of the shape lands on an occupied cell of the board
landsOnOccupied(board, shape, position) ==
  \E r \in 1..Len(shape), c \in 1..shapeWidthOf(shape) :
    /\ shape[r][c]
    /\ position.row + r \in 1..Len(board)
    /\ position.col + c \in 1..boardWidthOf(board)
    /\ board[position.row + r][position.col + c].occupied

\* every set cell of the shape lands on the board
cellsInside(board, shape, position) ==
  \A r \in 1..Len(shape), c \in 1..shapeWidthOf(shape) :
    shape[r][c] =>
      /\ position.row + r \in 1..Len(board)
      /\ position.col + c \in 1..boardWidthOf(board)

\* C18: checkCollision reports outOfBounds whenever the bounding box of the
\* shape is not entirely on the board, even if every set cell is; overlaps
\* is true iff a set cell lands on an occupied cell; collides is outOfBounds
\* or overlaps, and canPlace is the negation of collides.
C18_CollisionReport ==
  call.collided # <<>> =>
    /\ boxNotInside(call.board, call.collided[1].shape,
                    call.collided[1].position)
         => (call.collided[1].report.outOfBounds
             /\ call.collided[1].report.collides)
    /\ call.collided[1].report.overlaps
         = landsOnOccupied(call.board, call.collided[1].shape,
                           call.collided[1].position)
    /\ call.collided[1].report.collides
         = (call.collided[1].report.outOfBounds
            \/ call.collided[1].report.overlaps)
    /\ call.collided[1].canPlace = ~call.collided[1].report.collides

\* the box leaves the board while every set cell is on it, on free cells
C18_Witness ==
  /\ call.collided # <<>>
  /\ boxNotInside(call.board, call.collided[1].shape,
                  call.collided[1].position)
  /\ cellsInside(call.board, call.collided[1].shape,
                 call.collided[1].position)
  /\ ~call.collided[1].report.overlaps
  /\ call.collided[1].report.outOfBounds
  /\ ~call.collided[1].canPlace

\* the piece at row collides with the board
collidesAtRow(board, piece, row) ==
  checkCollision(board, getPieceShape(piece.type, piece.rotation),
                 Pt(row, piece.position.col)).collides

\* C19: computeGhostPosition returns null iff there is no piece or the piece
\* collides where it is; otherwise it returns the column of the piece and the
\* row r at or below the row of the piece such that every placement from
\* that row down to r is free and the placement at r + 1 collides.
C19_GhostPosition ==
  call.ghosted # <<>> =>
    IF call.ghosted[1].piece = <<>>
    THEN call.ghosted[1].result = <<>>
    ELSE IF collidesAtRow(call.board, call.ghosted[1].piece[1],
                          call.ghosted[1].piece[1].position.row)
    THEN call.ghosted[1].result = <<>>
    ELSE /\ call.ghosted[1].result # <<>>
         /\ call.ghosted[1].result[1].col
              = call.ghosted[1].piece[1].position.col
         /\ call.ghosted[1].result[1].row
              >= call.ghosted[1].piece[1].position.row
         /\ \A q \in call.ghosted[1].piece[1].position.row
                       ..call.ghosted[1].result[1].row :
              ~collidesAtRow(call.board, call.ghosted[1].piece[1], q)
         /\ collidesAtRow(call.board, call.ghosted[1].piece[1],
                          call.ghosted[1].result[1].row + 1)

\* the projection lies one row below the piece, on locked cells
C19_Witness ==
  /\ call.ghosted # <<>>
  /\ call.ghosted[1].piece # <<>>
  /\ call.ghosted[1].result # <<>>
  /\ call.ghosted[1].result[1].row
       = call.ghosted[1].piece[1].position.row + 1
  /\ call.ghosted[1].result[1].row
       + Len(getPieceShape(call.ghosted[1].piece[1].type,
                           call.ghosted[1].piece[1].rotation))
       < Len(call.board)

(***************************************************************************)
(* The lookahead queue.                                                    *)
(***************************************************************************)
\* the queue state with only the first n pieces of its queue
queueCutTo(state, n) == [state EXCEPT !.queue = SubSeq(state.queue, 1, n)]

\* C20: in every reachable session state nextQueue has exactly 3 entries,
\* and createNextQueue and advanceQueue return a queue of length 3 (here:
\* from the randomizer of the state, and from the queue of the state cut to
\* any length up to its own).
C20_QueueLengthThree ==
  /\ Len(loop.internal.session.nextQueue) = 3
  /\ Len(loop.internal.nextQueue.queue) = 3
  /\ loop.internal.session.nextQueue = loop.internal.nextQueue.queue
  /\ Len(createNextQueue(loop.internal.nextQueue.rng).queue) = 3
  /\ \A n \in 0..Len(loop.internal.nextQueue.queue) :
       Len(advanceQueue(queueCutTo(loop.internal.nextQueue, n)).queue) = 3

\* a piece has locked and the game goes on
C20_Witness ==
  /\ loop.internal.session.phase = "playing"
  /\ loop.internal.session.active # <<>>
  /\ Len(loop.internal.session.rng.history) >= 6
  /\ Len(loop.internal.session.nextQueue) = 3

(***************************************************************************)
(* Rotation.                                                               *)
(***************************************************************************)
\* the piece after a rotation in direction first, then one in direction then
thereAndBack(piece, first, then, board) ==
  attemptSrsRotation(
    attemptSrsRotation(piece, first, board, SrsCols, SrsRows).piece,
    then, board, SrsCols, SrsRows).piece

\* C15: on an empty board, from rotation 0 at any position where
\* the piece fits, clockwise then counter-clockwise, and counter-clockwise
\* then clockwise, return the piece to rotation 0 at its position.
C15_RotationReversible ==
  (call.board = createEmptyBoard(SrsRows, SrsCols)
   /\ call.piece.rotation = 0) =>
    /\ thereAndBack(call.piece, "cw", "ccw", call.board) = call.piece
    /\ thereAndBack(call.piece, "ccw", "cw", call.board) = call.piece

\* the rotation a turn in direction leads to
turned(rotation, direction) ==
  (rotation + (IF direction = "cw" THEN 1 ELSE 3)) % 4

\* the origin of the piece turned to rotation to and moved by the kick: its
\* position plus the change of pivot offset plus the kick, rounded
kickedOrigin(piece, to, kick) ==
  Pt(roundHalf(2 * piece.position.row + 2 * kick.row
                 + rotationDefinition(piece.type, piece.rotation).pivotOffset2.row
                 - rotationDefinition(piece.type, to).pivotOffset2.row),
     roundHalf(2 * piece.position.col + 2 * kick.col
                 + rotationDefinition(piece.type, piece.rotation).pivotOffset2.col
                 - rotationDefinition(piece.type, to).pivotOffset2.col))

\* every cell of the piece kind in rotation to, placed at origin, is on the
\* board and unoccupied
cellsFitAt(type, to, origin, board) ==
  \A k \in 1..Len(getPieceCells(type, to)) :
    /\ origin.row + getPieceCells(type, to)[k].row \in 0..(Len(board) - 1)
    /\ origin.col + getPieceCells(type, to)[k].col
         \in 0..(boardWidthOf(board) - 1)
    /\ ~board[origin.row + getPieceCells(type, to)[k].row + 1]
             [origin.col + getPieceCells(type, to)[k].col + 1].occupied

\* the indices, in the kick list of the transition, of the candidates that fit
fittingKicks(piece, to, board) ==
  {k \in 1..Len(getKickTests(piece.type, piece.rotation, to)) :
     cellsFitAt(piece.type, to,
                kickedOrigin(piece, to,
                             getKickTests(piece.type, piece.rotation, to)[k]),
                board)}

\* what attemptSrsRotation is to return for the turn of piece to rotation to
expectedRotation(piece, to, board, fitting) ==
  IF fitting = {}
  THEN [success |-> FALSE, piece |-> piece, kick |-> <<>>]
  ELSE [success |-> TRUE,
        piece |-> [type |-> piece.type, rotation |-> to,
                   position |->
                     kickedOrigin(piece, to,
                                  getKickTests(piece.type, piece.rotation,
                                               to)[MinOf(fitting)])],
        kick |-> <<Pt(kickedOrigin(piece, to,
                                   getKickTests(piece.type, piece.rotation,
                                                to)[MinOf(fitting)]).row
                        - piece.position.row,
                      kickedOrigin(piece, to,
                                   getKickTests(piece.type, piece.rotation,
                                                to)[MinOf(fitting)]).col
                        - piece.position.col)>>]

\* the rotation of the active piece of L in direction
rotationOf(L, direction) ==
  attemptSrsRotation(L.internal.session.active[1], direction,
                     L.internal.session.board, L.opts.width, L.opts.height)

\* the candidates that fit for the active piece of L turned in direction
fittingFor(L, direction) ==
  fittingKicks(L.internal.session.active[1],
               turned(L.internal.session.active[1].rotation, direction),
               L.internal.session.board)

rotateInput(direction) == [type |-> "rotate", direction |-> direction]

\* C16: attemptSrsRotation returns the first candidate, in the order of the
\* kick list of the transition, whose cells are all on the board and
\* unoccupied, with kick the displacement of the origin; when no candidate
\* fits it returns success false, the piece unchanged and kick null, and the
\* rotate input leaves the session unchanged.
C16_FirstFittingKick ==
  accepting(loop) =>
    \A direction \in {"cw", "ccw"} :
      /\ rotationOf(loop, direction)
           = expectedRotation(
               loop.internal.session.active[1],
               turned(loop.internal.session.active[1].rotation, direction),
               loop.internal.session.board, fittingFor(loop, direction))
      /\ ~rotationOf(loop, direction).success
           => applyInput(loop, rotateInput(direction)) = loop

\* one turn of the active piece fails, and the other succeeds with a
\* candidate that is not the first of its list while a later one fits too
C16_Witness ==
  /\ accepting(loop)
  /\ \E direction \in {"cw", "ccw"} : fittingFor(loop, direction) = {}
  /\ \E direction \in {"cw", "ccw"} :
       /\ fittingFor(loop, direction) # {}
       /\ 1 \notin fittingFor(loop, direction)
       /\ Cardinality(fittingFor(loop, direction)) > 1

(***************************************************************************)
(* The kick lists.                                                         *)
(***************************************************************************)
\* the kick list attemptSrsRotation consults when the piece of the state is
\* turned in the direction
kicksToward(direction) ==
  getKickTests(call.piece.type, call.piece.rotation,
               turned(call.piece.rotation, direction))

ThreeKickKinds == {"J", "L", "S", "T", "Z"}

absOf(n) == IF n < 0 THEN -n ELSE n

\* the list of I has 5 offsets with components of magnitude at most 2, the
\* list of O is the single offset (0, 0)
kickListOfIAndO(kicks) ==
  /\ call.piece.type = "I" =>
       /\ Len(kicks) = 5
       /\ \A k \in 1..Len(kicks) : absOf(kicks[k].row) <= 2
                                   /\ absOf(kicks[k].col) <= 2
  /\ call.piece.type = "O" => kicks = <<Pt(0, 0)>>

\* C17 as stated: J, L, S, T and Z have 3 offsets per transition: (0, 0),
\* then a vertical-only offset, then an offset with a vertical and a
\* horizontal component; I has 5 offsets of components at most 2 in
\* magnitude; O has the single offset (0, 0).
C17_SecondKickVertical ==
  \A direction \in {"cw", "ccw"} :
    /\ kickListOfIAndO(kicksToward(direction))
    /\ call.piece.type \in ThreeKickKinds =>
         /\ Len(kicksToward(direction)) = 3
         /\ kicksToward(direction)[1] = Pt(0, 0)
         /\ kicksToward(direction)[2].col = 0
         /\ kicksToward(direction)[2].row # 0
         /\ kicksToward(direction)[3].row # 0
         /\ kicksToward(direction)[3].col # 0

\* C17: J, L, S, T and Z have 3 offsets per transition: (0, 0), then a
\* horizontal-only offset of one column, then an offset with a vertical and
\* a horizontal component; I has 5 offsets of components at most 2 in
\* magnitude; O has the single offset (0, 0).
C17_SecondKickHorizontal ==
  \A direction \in {"cw", "ccw"} :
    /\ kickListOfIAndO(kicksToward(direction))
    /\ call.piece.type \in ThreeKickKinds =>
         /\ Len(kicksToward(direction)) = 3
         /\ kicksToward(direction)[1] = Pt(0, 0)
         /\ kicksToward(direction)[2].row = 0
         /\ absOf(kicksToward(direction)[2].col) = 1
         /\ kicksToward(direction)[3].row # 0
         /\ kicksToward(direction)[3].col # 0

\* a T piece has turned with the second offset of its list: it stays in its
\* rows and lands one column beside the first candidate
C17_Witness ==
  /\ call.rotated # <<>>
  /\ call.rotated[1].from.type = "T"
  /\ call.rotated[1].result.success
  /\ MinOf(fittingKicks(call.rotated[1].from,
                        call.rotated[1].result.piece.rotation,
                        call.board) \cup {4}) = 2
  /\ call.rotated[1].result.piece.position.row
       = kickedOrigin(call.rotated[1].from,
                      call.rotated[1].result.piece.rotation, Pt(0, 0)).row
  /\ call.rotated[1].result.piece.position.col
       # kickedOrigin(call.rotated[1].from,
                      call.rotated[1].result.piece.rotation, Pt(0, 0)).col

(***************************************************************************)
(* The queue and the randomizer.                                           *)
(***************************************************************************)
lastThree(history) == SubSeq(history, Len(history) - 2, Len(history))

\* advanceQueue on a full queue: the head becomes active, the rest moves up,
\* one drawn piece is appended and the history grows by that piece
advancedByOne(state, advanced) ==
  /\ advanced.active = state.queue[1]
  /\ Len(advanced.queue) = 3
  /\ advanced.queue[1] = state.queue[2]
  /\ advanced.queue[2] = state.queue[3]
  /\ advanced.queue[3] = drawNextPiece(state.rng).piece
  /\ advanced.rng.history = Append(state.rng.history, advanced.queue[3])
  /\ advanced.rng = drawNextPiece(state.rng).state

\* C21: advanceQueue on a full queue makes queue[0] the active piece, keeps
\* queue[1..2] as the new queue[0..1], appends one drawn piece and returns
\* the history extended by that piece; in every session state nextQueue is
\* the last 3 entries of rng.history.
C21_QueueFollowsHistory ==
  /\ Len(loop.internal.nextQueue.queue) = 3 =>
       advancedByOne(loop.internal.nextQueue,
                     advanceQueue(loop.internal.nextQueue))
  /\ Len(loop.internal.session.rng.history) >= 3
  /\ loop.internal.session.nextQueue
       = lastThree(loop.internal.session.rng.history)

\* one piece has locked: the second piece drawn is active and the queue is
\* the third to fifth
C21_Witness ==
  /\ loop.internal.session.phase = "playing"
  /\ Len(loop.internal.session.rng.history) = 5
  /\ loop.internal.session.active # <<>>
  /\ loop.internal.session.active[1].type
       = loop.internal.session.rng.history[2]
  /\ loop.internal.session.nextQueue
       = SubSeq(loop.internal.session.rng.history, 3, 5)

\* the k-th window of 7 draws of the history, k counted from 0
windowOf(history, k) ==
  SubSeq(history, 7 * k + 1, 7 * k + 7)

isPermutationOfKinds(window) ==
  /\ Len(window) = Len(TETROMINO_TYPES)
  /\ \A kind \in PieceKinds :
       Cardinality({i \in 1..Len(window) : window[i] = kind}) = 1

\* C22: from a freshly created randomizer, each consecutive non-overlapping
\* window of 7 draws holds each of the 7 kinds exactly once, and a bag is
\* generated exactly at the history lengths that are multiples of 7.
C22_SevenBagWindows ==
  /\ \A k \in 0..((Len(call.rng.history) \div 7) - 1) :
       isPermutationOfKinds(windowOf(call.rng.history, k))
  /\ \A h \in 0..Len(call.rng.history) :
       (\E g \in 1..Len(call.generated) : call.generated[g] = h)
         <=> (h % 7 = 0 /\ (h = 0 \/ h < Len(call.rng.history)))
  /\ \A g \in 1..Len(call.generated) :
       \A g2 \in 1..Len(call.generated) :
         call.generated[g] = call.generated[g2] => g = g2

\* three bags have been drawn from, two of them to the end, and the second
\* window is ordered differently from the first
C22_Witness ==
  /\ Len(call.rng.history) = 15
  /\ call.generated = <<0, 7, 14>>
  /\ windowOf(call.rng.history, 0) # windowOf(call.rng.history, 1)

(***************************************************************************)
(* Scoring.                                                                *)
(***************************************************************************)
basePoints(n) ==
  CASE n = 1 -> 100 [] n = 2 -> 300 [] n = 3 -> 500 [] n = 4 -> 800

\* C23: applyLineClear with n in 1..4 adds base[n] x (level before the
\* clear + 1) to the score, adds n to lines and sets level to
\* floor(lines / 10); the stats of a session always have
\* level = floor(lines / 10).
C23_LineClearAward ==
  /\ call.stats.level = call.stats.lines \div 10
  /\ (call.last # <<>> /\ call.last[1].op = "lineClear") =>
       /\ call.stats.score
            = call.last[1].before.score
              + basePoints(call.last[1].amount)
                  * (call.last[1].before.level + 1)
       /\ call.stats.lines
            = call.last[1].before.lines + call.last[1].amount
       /\ call.stats.level = call.stats.lines \div 10
       /\ call.stats.dropDistanceSoft = call.last[1].before.dropDistanceSoft
       /\ call.stats.dropDistanceHard = call.last[1].before.dropDistanceHard

\* four rows cleared at level 1 with 17 lines: 1600 points and level 2
C23_Witness ==
  /\ call.last # <<>>
  /\ call.last[1].op = "lineClear"
  /\ call.last[1].amount = 4
  /\ call.last[1].before.lines = 17
  /\ call.last[1].before.level = 1
  /\ call.stats.level = 2
  /\ call.stats.score = call.last[1].before.score + 1600

hardDropInput == [type |-> "hardDrop", direction |-> "none"]

\* the rows the active piece can descend: every row down to that distance is
\* free and the next one collides
rowsToLanding(L) ==
  CHOOSE d \in 0..Len(L.internal.session.board) :
    /\ \A k \in 1..d :
         ~collidesAtRow(L.internal.session.board, L.internal.session.active[1],
                        L.internal.session.active[1].position.row + k)
    /\ collidesAtRow(L.internal.session.board, L.internal.session.active[1],
                     L.internal.session.active[1].position.row + d + 1)

\* the award of the rows a lock cleared, at the level before the lock
awardFor(stats, n) == IF n = 0 THEN 0 ELSE basePoints(n) * (stats.level + 1)

\* a softDrop that finds the next row free moves the piece one row down and
\* adds 1 to score and dropDistanceSoft; a blocked one changes neither the
\* stats nor the piece
softDropScored(L, after) ==
  IF collidesAtRow(L.internal.session.board, L.internal.session.active[1],
                   L.internal.session.active[1].position.row + 1)
  THEN /\ after.internal.session.stats = L.internal.session.stats
       /\ after.internal.session.active = L.internal.session.active
       /\ after.internal.session.board = L.internal.session.board
  ELSE /\ after.internal.session.stats =
            [L.internal.session.stats EXCEPT
               !.score = @ + 1, !.dropDistanceSoft = @ + 1]
       /\ after.internal.session.active =
            <<[L.internal.session.active[1] EXCEPT !.position.row = @ + 1]>>

\* a hardDrop of d rows adds d to dropDistanceHard and 2 * d to the score,
\* to which the award of the rows cleared by the lock is then added
hardDropScored(L, after, d) ==
  /\ after.internal.session.stats.dropDistanceHard
       = L.internal.session.stats.dropDistanceHard + d
  /\ after.internal.session.stats.dropDistanceSoft
       = L.internal.session.stats.dropDistanceSoft
  /\ after.internal.session.stats.lines >= L.internal.session.stats.lines
  /\ after.internal.session.stats.score
       = L.internal.session.stats.score + 2 * d
         + awardFor(L.internal.session.stats,
                    after.internal.session.stats.lines
                      - L.internal.session.stats.lines)

\* C24: a successful softDrop input adds exactly 1 to score and to
\* dropDistanceSoft, a softDrop blocked by the floor or the stack changes no
\* stats and does not move the piece, and a hardDrop that descends d rows
\* adds exactly 2 * d to score and d to dropDistanceHard before any
\* line-clear award.
C24_DropScoring ==
  accepting(loop) =>
    /\ softDropScored(loop, applyInput(loop, softDropInput))
    /\ hardDropScored(loop, applyInput(loop, hardDropInput),
                      rowsToLanding(loop))

\* a piece was soft-dropped one row, an earlier one hard-dropped, no row was
\* cleared, and the active piece now rests: a further softDrop is blocked
C24_Witness ==
  /\ accepting(loop)
  /\ loop.internal.session.stats.lines = 0
  /\ loop.internal.session.stats.dropDistanceSoft = 1
  /\ loop.internal.session.stats.dropDistanceHard >= 2
  /\ loop.internal.session.stats.score
       = 1 + 2 * loop.internal.session.stats.dropDistanceHard
  /\ rowsToLanding(loop) = 0

\* no counter of before is above its value in after
notDecreased(before, after) ==
  /\ before.score <= after.score
  /\ before.level <= after.level
  /\ before.lines <= after.lines
  /\ before.dropDistanceSoft <= after.dropDistanceSoft
  /\ before.dropDistanceHard <= after.dropDistanceHard

\* C25: no tick and no input makes score, level, lines, dropDistanceSoft or
\* dropDistanceHard decrease.
C25_StatsNeverDecrease ==
  /\ \A deltaMs \in Deltas :
       notDecreased(loop.internal.session.stats,
                    processTick(loop, deltaMs).internal.session.stats)
  /\ \A input \in Inputs :
       notDecreased(loop.internal.session.stats,
                    applyInput(loop, input).internal.session.stats)

\* rows have been cleared and pieces soft- and hard-dropped, and the session
\* takes further ticks and inputs
C25_Witness ==
  /\ accepting(loop)
  /\ loop.internal.session.stats.lines >= 1
  /\ loop.internal.session.stats.dropDistanceSoft >= 1
  /\ loop.internal.session.stats.dropDistanceHard >= 1
  /\ loop.internal.session.stats.score >= 100
  /\ applyInput(loop, softDropInput).internal.session.stats
       # loop.internal.session.stats

(***************************************************************************)
(* Hold.                                                                   *)
(***************************************************************************)
\* the hold input was performed on L and a piece was spawned
heldAndSpawned(L, after) ==
  /\ accepting(L)
  /\ after # L
  /\ after.internal.session.phase = "playing"
  /\ after.internal.session.active # <<>>

\* the hold with an empty slot: the active kind is stored, the head of the
\* queue becomes the active piece, and the queue moves up by one and takes
\* one drawn piece
heldFromQueue(before, after) ==
  /\ after.hold = before.active[1].type
  /\ after.active[1].type = before.nextQueue[1]
  /\ Len(after.nextQueue) = 3
  /\ after.nextQueue[1] = before.nextQueue[2]
  /\ after.nextQueue[2] = before.nextQueue[3]
  /\ after.rng.history = Append(before.rng.history, after.nextQueue[3])
  /\ after.rng.seed = before.rng.seed

\* the hold with an occupied slot: the stored and the active kind change
\* places, queue and randomizer stay
heldBySwap(before, after) ==
  /\ after.hold = before.active[1].type
  /\ after.active[1].type = before.hold
  /\ after.nextQueue = before.nextQueue
  /\ after.rng = before.rng

holdPlaced(L, after) ==
  /\ after.internal.hold.slot = after.internal.session.hold
  /\ IF L.internal.session.hold = "null"
     THEN heldFromQueue(L.internal.session, after.internal.session)
     ELSE /\ heldBySwap(L.internal.session, after.internal.session)
          /\ after.internal.nextQueue = L.internal.nextQueue

sameHoldSlot(L, after) ==
  /\ after.internal.session.hold = L.internal.session.hold
  /\ after.internal.hold.slot = L.internal.hold.slot

\* C26: a successful hold with an empty slot stores the active kind, makes
\* the former nextQueue[0] the active piece and advances the queue by one
\* piece, refilled to 3; a successful hold with an occupied slot swaps the
\* stored kind with the active kind and leaves nextQueue and rng unchanged; a
\* lock, by gravity or by hard drop, never changes the content of the slot.
C26_HoldSlot ==
  /\ heldAndSpawned(loop, applyInput(loop, holdInput)) =>
       holdPlaced(loop, applyInput(loop, holdInput))
  /\ sameHoldSlot(loop, applyInput(loop, hardDropInput))
  /\ \A deltaMs \in Deltas : sameHoldSlot(loop, processTick(loop, deltaMs))

\* a kind is stored, a lock has made the hold available again, and the hold
\* made now swaps the stored kind in
C26_Witness ==
  /\ loop.internal.session.hold # "null"
  /\ loop.machine.holdAvailable
  /\ heldAndSpawned(loop, applyInput(loop, holdInput))
  /\ applyInput(loop, holdInput).internal.session.active[1].type
       = loop.internal.session.hold

KindsOrNull == PieceKinds \cup {"null"}

\* performHold raises exactly when the hold was used this turn or the slot is
\* empty and there is no queue piece, and then returns no new state
raisesAsDocumented(state, active, nextQueuePiece) ==
  /\ performHold(state, active, nextQueuePiece).threw
       <=> (state.usedThisTurn
            \/ (state.slot = "null" /\ nextQueuePiece = "null"))
  /\ performHold(state, active, nextQueuePiece).threw =>
       performHold(state, active, nextQueuePiece).state = state

\* the queue piece handleHold passes to performHold
holdQueuePiece(L) ==
  IF L.internal.hold.slot = "null" /\ Len(L.internal.nextQueue.queue) > 0
  THEN L.internal.nextQueue.queue[1]
  ELSE "null"

\* the hold cannot be performed on L: the input is not accepted, the phase
\* machine has the hold used, or performHold raises
holdImpossible(L) ==
  \/ ~accepting(L)
  \/ ~L.machine.holdAvailable
  \/ performHold(L.internal.hold, L.internal.session.active[1].type,
                 holdQueuePiece(L)).threw

\* C27: performHold raises, and returns no new state, when usedThisTurn is
\* true and when the slot is empty and there is no queue piece; a hold input
\* that cannot be performed leaves the game loop as it is.
C27_HoldErrors ==
  /\ \A used \in BOOLEAN, active \in PieceKinds, next \in KindsOrNull :
       /\ raisesAsDocumented([slot |-> loop.internal.hold.slot,
                              usedThisTurn |-> used], active, next)
       /\ raisesAsDocumented([slot |-> "null", usedThisTurn |-> used],
                             active, next)
       /\ raisesAsDocumented([slot |-> active, usedThisTurn |-> used],
                             active, next)
  /\ holdImpossible(loop) => applyInput(loop, holdInput) = loop

\* the hold was used this turn: performHold raises on the hold state of the
\* game loop, and the hold input leaves the game loop as it is
C27_Witness ==
  /\ accepting(loop)
  /\ loop.internal.hold.usedThisTurn
  /\ performHold(loop.internal.hold, loop.internal.session.active[1].type,
                 holdQueuePiece(loop)).threw
  /\ applyInput(loop, holdInput) = loop

(***************************************************************************)
(* The lock snapshot at a spawn.                                           *)
(***************************************************************************)
\* the lock snapshot of the session and the gravity state are those of a
\* fresh piece
freshLockState(L) ==
  /\ L.internal.session.lock
       = [isLocking |-> FALSE, elapsedMs |-> 0, frames |-> 0]
  /\ L.internal.gravity = createGravityState

\* the operation made on L has put a new active piece on the board
spawnedBy(L, after) ==
  /\ after.internal.session.phase = "playing"
  /\ after.internal.session.active # <<>>

freshAfterLock ==
  /\ (accepting(loop) /\ spawnedBy(loop, applyInput(loop, hardDropInput))) =>
       freshLockState(applyInput(loop, hardDropInput))
  /\ \A deltaMs \in Deltas :
       (accepting(loop) /\ tickLocks(loop, deltaMs)
        /\ spawnedBy(loop, processTick(loop, deltaMs))) =>
         freshLockState(processTick(loop, deltaMs))

\* C28: immediately after an operation that spawns a new active piece (a
\* lock by gravity or by hard drop, or a successful hold), the lock snapshot
\* of the session is isLocking = false, elapsedMs = 0, frames = 0 and the
\* gravity state is fully reset.
C28_FreshLockAtSpawn ==
  /\ freshAfterLock
  /\ heldAndSpawned(loop, applyInput(loop, holdInput)) =>
       freshLockState(applyInput(loop, holdInput))

(***************************************************************************)
(* stepGravity off the ground.                                             *)
(***************************************************************************)
\* C29: a stepGravity step with grounded = false taken from a locking state
\* returns lockElapsedMs = 0, lockFrames = 0, isLocking = false and
\* shouldLock = false, whatever the counters were.
C29_AirborneClearsLock ==
  (/\ grav.last # <<>>
   /\ ~grav.last[1].context.grounded
   /\ grav.last[1].before.isLocking) =>
    /\ grav.last[1].result.state.lockElapsedMs = 0
    /\ grav.last[1].result.state.lockFrames = 0
    /\ ~grav.last[1].result.state.isLocking
    /\ ~grav.last[1].result.shouldLock
    /\ grav.state = grav.last[1].result.state

\* a piece that had been locking for some time and some frames left the
\* ground
C29_Witness ==
  /\ grav.last # <<>>
  /\ ~grav.last[1].context.grounded
  /\ grav.last[1].before.isLocking
  /\ grav.last[1].before.lockElapsedMs > 0
  /\ grav.last[1].before.lockFrames > 0
  /\ grav.state.lockElapsedMs = 0
  /\ grav.state.lockFrames = 0

\* the time fallen when the step is taken: what was kept plus the delta
totalFallOf(step) == step.before.fallElapsedMs + step.context.deltaMs

\* C30: for gravityMs > 0, a falling stepGravity step returns
\* dropRows = floor((fallElapsedMs + deltaMs) / gravityMs) and keeps the
\* remainder, so that 0 <= fallElapsedMs < gravityMs after every step; a
\* grounded step returns dropRows = 0 and sets fallElapsedMs to 0.
C30_FallRemainder ==
  grav.config.gravityMs > 0 =>
    /\ 0 <= grav.state.fallElapsedMs
    /\ grav.state.fallElapsedMs < grav.config.gravityMs
    /\ (grav.last # <<>> /\ ~grav.last[1].context.grounded) =>
         /\ grav.last[1].result.dropRows >= 0
         /\ grav.last[1].result.dropRows * grav.config.gravityMs
              <= totalFallOf(grav.last[1])
         /\ totalFallOf(grav.last[1])
              < (grav.last[1].result.dropRows + 1) * grav.config.gravityMs
         /\ grav.state.fallElapsedMs
              = totalFallOf(grav.last[1])
                - grav.last[1].result.dropRows * grav.config.gravityMs
    /\ (grav.last # <<>> /\ grav.last[1].context.grounded) =>
         /\ grav.last[1].result.dropRows = 0
         /\ grav.state.fallElapsedMs = 0

\* a falling step of 600 ms on top of 240 ms kept, at 250 ms a row: 3 rows
\* and 90 ms kept
C30_Witness ==
  /\ grav.config.gravityMs = 250
  /\ grav.last # <<>>
  /\ ~grav.last[1].context.grounded
  /\ grav.last[1].before.fallElapsedMs = 240
  /\ grav.last[1].context.deltaMs = 600
  /\ grav.last[1].result.dropRows = 3
  /\ grav.state.fallElapsedMs = 90

(***************************************************************************)
(* stop().                                                                 *)
(***************************************************************************)
seedConfigured(opts) == opts.seed # <<>> /\ Len(opts.seed[1]) > 0

\* the session is the one of a loop that has not been started
sessionReset(L, session) ==
  /\ session.phase = "ready"
  /\ session.board = createEmptyBoard(L.opts.height, L.opts.width)
  /\ session.active = <<>>
  /\ session.ghost = <<>>
  /\ session.hold = "null"
  /\ ~session.holdUsedThisTurn
  /\ session.stats = createInitialStats
  /\ Len(session.nextQueue) = 3
  /\ Len(session.rng.history) = 4
  /\ session.nextQueue = SubSeq(session.rng.history, 2, 4)

\* stop() on L, and what a start() after it gives, against a new loop
stoppedLikeNew(L, stopped, fresh, d) ==
  /\ sessionReset(L, stopped.internal.session)
  /\ stopped.machine = createStateMachine
  /\ ~stopped.internal.running
  /\ seedConfigured(L.opts) =>
       /\ stopped.internal.session.nextQueue = fresh.internal.session.nextQueue
       /\ stopped.internal.session.rng = fresh.internal.session.rng
       /\ stopped.internal.nextQueue = fresh.internal.nextQueue
       /\ startGame(stopped, d).internal.session
            = startGame(fresh, d).internal.session

\* C31: stop() called in any phase returns the session to phase ready with
\* an empty board, no active piece, no ghost, an empty hold slot,
\* holdUsedThisTurn false, zero stats and a fresh queue of 3 pieces; with a
\* configured seed the queue and rng are those of a newly created loop, and
\* a start() that follows replays the same pieces.
C31_StopResets ==
  \A d \in defaultSeedChoices(loop.opts.seed) :
    stoppedLikeNew(loop, stopGame(loop, d), createGameLoop(loop.opts, d), d)

\* a session that is over or paused, with a kind held, points scored and
\* cells on the board, on which stop() is then called
C31_Witness ==
  /\ loop.internal.session.phase \in {"gameOver", "paused"}
  /\ loop.internal.session.hold # "null"
  /\ loop.internal.session.stats.score > 0
  /\ loop.internal.session.board
       # createEmptyBoard(loop.opts.height, loop.opts.width)
  /\ \A d \in defaultSeedChoices(loop.opts.seed) :
       stopGame(loop, d) = createGameLoop(loop.opts, d)

(***************************************************************************)
(* Listeners.                                                              *)
(***************************************************************************)
\* the listeners of the subscriptions still active, in the order of their
\* registration, each once
RECURSIVE subscribedInOrder(_, _)
subscribedInOrder(subs, seen) ==
  IF subs = <<>> THEN seen
  ELSE subscribedInOrder(
         Tail(subs),
         IF Head(subs).active /\ ~listenerSeqHas(seen, Head(subs).listener)
         THEN Append(seen, Head(subs).listener)
         ELSE seen)

\* a repeated call of an unsubscribe function changes nothing
repeatedCallHarmless ==
  (/\ call.last # <<>>
   /\ call.last[1].op = "unsubscribe"
   /\ ~call.last[1].before.subs[call.last[1].sub].active) =>
    call.reg = call.last[1].before

\* the first call of an unsubscribe function takes its listener out and
\* leaves the other listeners in their order
firstCallRemovesListener ==
  (/\ call.last # <<>>
   /\ call.last[1].op = "unsubscribe"
   /\ call.last[1].before.subs[call.last[1].sub].active) =>
    /\ ~listenerSeqHas(call.reg.listeners,
                       call.reg.subs[call.last[1].sub].listener)
    /\ call.reg.listeners
         = listenerSeqWithout(call.last[1].before.listeners,
                              call.reg.subs[call.last[1].sub].listener)
    /\ \A i \in 1..Len(call.reg.subs) :
         i # call.last[1].sub =>
           call.reg.subs[i] = call.last[1].before.subs[i]

\* an emit notifies the registered listeners, each once, in their order
emitNotifiesRegistered ==
  /\ (call.last # <<>> /\ call.last[1].op = "emit") =>
       call.notified = call.reg.listeners
  /\ \A j \in 1..Len(call.reg.listeners) :
       \A k \in 1..Len(call.reg.listeners) :
         call.reg.listeners[j] = call.reg.listeners[k] => j = k

\* C32 as stated: an unsubscribe function can be called any number of times
\* and removes only its own subscription: its listener is notified no more,
\* and every listener with a subscription that was not cancelled is notified
\* once per emit, in registration order.
C32_OnlyOwnSubscription ==
  /\ repeatedCallHarmless
  /\ emitNotifiesRegistered
  /\ call.reg.listeners = subscribedInOrder(call.reg.subs, <<>>)

\* C32: an unsubscribe function can be called any number of times; its
\* first call removes its listener function, and every other listener
\* function is still notified once per emit, in registration order.  As long
\* as no listener function was subscribed while it was subscribed already,
\* the listeners notified are those of the subscriptions not cancelled.
C32_OwnListenerRemoved ==
  /\ repeatedCallHarmless
  /\ firstCallRemovesListener
  /\ emitNotifiesRegistered
  /\ ~call.doubled =>
       call.reg.listeners = subscribedInOrder(call.reg.subs, <<>>)

\* f was subscribed, cancelled and subscribed again, g is subscribed too; the
\* first unsubscribe function was then called a second time, and f is still
\* notified, after g
C32_Witness ==
  /\ ~call.doubled
  /\ Len(call.reg.subs) >= 3
  /\ call.last # <<>>
  /\ call.last[1].op = "unsubscribe"
  /\ call.last[1].sub = 1
  /\ ~call.last[1].before.subs[1].active
  /\ \E i \in 2..Len(call.reg.subs) :
       /\ call.reg.subs[i].active
       /\ call.reg.subs[i].listener = call.reg.subs[1].listener
  /\ Len(call.reg.listeners) = 2
  /\ call.reg.listeners[2] = call.reg.subs[1].listener

(***************************************************************************)
(* Snapshots.                                                              *)
(***************************************************************************)
\* what the session of the specification reads as before anything is written
sessionAsCreated ==
  deepValue(Append(SessionParts, call.heap[call.session]),
            Len(SessionParts) + 1)

\* C33: a snapshot shares no object with the session it was taken from, and
\* with each other snapshot; whatever is written into snapshots, the session
\* reads as before and a later getState() returns what it returned before.
C33_SnapshotsIndependent ==
  /\ \A k \in 1..Len(call.snapshots) :
       /\ reachable(call.heap, call.snapshots[k])
            \cap reachable(call.heap, call.session) = {}
       /\ \A j \in 1..Len(call.snapshots) :
            j # k => reachable(call.heap, call.snapshots[k])
                       \cap reachable(call.heap, call.snapshots[j]) = {}
  /\ deepValue(call.heap, call.session) = sessionAsCreated
  /\ deepValue(cloneSessionState(call.heap, call.session).heap,
               cloneSessionState(call.heap, call.session).at)
       = sessionAsCreated

\* a cell of the board and the position of the active piece of a snapshot
\* have been written to, and a second snapshot taken reads as the session
C33_Witness ==
  /\ Len(call.snapshots) = 2
  /\ call.writes = 2
  /\ call.heap[call.session].active.ref
  /\ deepValue(call.heap, call.snapshots[1]).board["0"]["1"].type = "written"
  /\ deepValue(call.heap, call.snapshots[1]).active.position.row = "written"
  /\ deepValue(call.heap, call.snapshots[2]) = sessionAsCreated

(***************************************************************************)
(* The speed profile.                                                      *)
(***************************************************************************)
\* the level a session is at: the initialLevel option until the first
\* level-up, the level of its stats from then on
sessionLevel(L) ==
  IF L.internal.session.stats.level > 0 THEN L.internal.session.stats.level
  ELSE L.opts.initialLevel

speedOfLevel(level) ==
  [gravityMs |-> gravityMsForLevel(level), lockDelayMs |-> LOCK_DELAY_MS]

\* the part of C34 about sessions in which the level never exceeded the
\* level of the stats: the profile is the one of stats.level or the one of
\* the initialLevel option, and lockDelayMs is 500
speedOfSomeLevel ==
  /\ loop.internal.session.speed.lockDelayMs = 500
  /\ loop.internal.session.speed
       \in {speedOfLevel(loop.opts.initialLevel),
            speedOfLevel(loop.internal.session.stats.level)}
  /\ loop.internal.gravityConfig.gravityMs
       = loop.internal.session.speed.gravityMs

\* C34: in every session state speed.gravityMs is the gravity interval of
\* the level the session is at (initialLevel at start, stats.level after
\* level-ups) and speed.lockDelayMs is 500.
C34_SpeedFollowsLevel ==
  loop.internal.session.speed = speedOfLevel(sessionLevel(loop))

(***************************************************************************)
(* The descent of a tick.                                                  *)
(***************************************************************************)
rowOfActive(L) == L.internal.session.active[1].position.row

\* the rows the gravity step of a tick of deltaMs asks for
askedRows(L, deltaMs) ==
  stepGravity(L.internal.gravity, L.internal.gravityConfig,
              tickContext(L, deltaMs, FALSE)).dropRows

\* the rows free beneath the active piece, found one row at a time
freeRows(L) ==
  descend(L.internal.session.board, activeShape(L),
          L.internal.session.active[1].position, 0)

\* what a tick of deltaMs does to an airborne piece
loweredBy(L, after, deltaMs) ==
  /\ after.internal.session.active
       = <<[L.internal.session.active[1] EXCEPT
              !.position.row =
                 @ + MinOf({askedRows(L, deltaMs), freeRows(L)})]>>
  /\ after.internal.session.board = L.internal.session.board
  /\ askedRows(L, deltaMs) > freeRows(L)
       => after.internal.session.lock
            = [isLocking |-> TRUE, elapsedMs |-> 0, frames |-> 0]
  /\ askedRows(L, deltaMs) <= freeRows(L)
       => ~after.internal.session.lock.isLocking

\* after a tick the row of the active piece is at most the row of the ghost
\* computed before the tick
notBelowGhost(L, after) ==
  after.internal.session.active # <<>>
    => /\ computeGhostPosition(L.internal.session.board,
                               L.internal.session.active) # <<>>
       /\ rowOfActive(after)
            <= computeGhostPosition(L.internal.session.board,
                                    L.internal.session.active)[1].row

\* C35: a tick on an airborne piece lowers it by min(dropRows, free rows);
\* when the descent stops early the lock state is isLocking with zero
\* counters; after any tick the active piece is not below the ghost computed
\* before the tick.
C35_TickDescent ==
  accepting(loop) =>
    \A deltaMs \in FallDeltas :
      /\ ~isGrounded(loop) => loweredBy(loop, processTick(loop, deltaMs), deltaMs)
      /\ notBelowGhost(loop, processTick(loop, deltaMs))

\* a piece in the air with less room beneath it than a tick of 3000 ms asks
\* for, which that tick puts on the ground
C35_Witness ==
  /\ accepting(loop)
  /\ ~isGrounded(loop)
  /\ freeRows(loop) = 2
  /\ askedRows(loop, 3000) = 3
  /\ rowOfActive(processTick(loop, 3000)) = rowOfActive(loop) + 2
  /\ processTick(loop, 3000).internal.session.lock.isLocking

(***************************************************************************)
(* The active piece on the board.                                          *)
(***************************************************************************)
\* the board cells of a piece, as <<row, col>> counted from 0
cellsOfPiece(piece) ==
  {<<piece.position.row + rc[1] - 1, piece.position.col + rc[2] - 1>> :
     rc \in filledCells(getPieceShape(piece.type, piece.rotation))}

insideAndFree(board, cells) ==
  \A rc \in cells :
    /\ rc[1] \in 0..(Len(board) - 1)
    /\ rc[2] \in 0..(boardWidthOf(board) - 1)
    /\ ~board[rc[1] + 1][rc[2] + 1].occupied

\* C36: in every session state with an active piece, the four cells of the
\* piece are inside the board and on unoccupied cells of the board.
C36_ActiveFitsBoard ==
  loop.internal.session.active # <<>>
    => /\ Cardinality(cellsOfPiece(loop.internal.session.active[1])) = 4
       /\ insideAndFree(loop.internal.session.board,
                        cellsOfPiece(loop.internal.session.active[1]))

\* a rotated piece that was moved against locked cells: it stands on the
\* floor, one of its cells has a locked cell beside it, and a piece has
\* been held
C36_Witness ==
  /\ accepting(loop)
  /\ loop.internal.session.active[1].rotation # 0
  /\ loop.internal.session.hold # "null"
  /\ isGrounded(loop)
  /\ \E rc \in cellsOfPiece(loop.internal.session.active[1]) :
       /\ rc[2] + 1 < boardWidthOf(loop.internal.session.board)
       /\ loop.internal.session.board[rc[1] + 1][rc[2] + 2].occupied
  /\ moveHorizontal(loop, "right") = loop

\* the piece a rotation returns lies on free cells of the board it was
\* rotated on
rotatedFitsBoard ==
  insideAndFree(call.board, cellsOfPiece(call.piece))

(***************************************************************************)
(* The ghost.                                                              *)
(***************************************************************************)
\* the ghost projection of the active piece of a session on its board
ghostOfSession(L) ==
  computeGhostPosition(L.internal.session.board, L.internal.session.active)

\* the board a hard drop leaves is the board with the piece locked at the
\* ghost position
landsOnGhost(L) ==
  /\ L.internal.session.ghost # <<>>
  /\ hardDrop(L).internal.session.board
       = lockPiece(L.internal.session.board, activeShape(L),
                   L.internal.session.ghost[1],
                   L.internal.session.active[1].type).board

\* C37: in every session state ghost is the ghost projection of the active
\* piece on the board, null when there is no active piece, and a hard drop
\* locks the piece at that ghost position.
C37_GhostIsProjection ==
  /\ loop.internal.session.ghost = ghostOfSession(loop)
  /\ loop.internal.session.active = <<>> => loop.internal.session.ghost = <<>>
  /\ accepting(loop) => landsOnGhost(loop)

\* a piece moved or rotated above locked cells, with its ghost beneath it
\* and resting on them, which the hard drop locks there
C37_Witness ==
  /\ accepting(loop)
  /\ loop.internal.pendingLockReset
  /\ loop.internal.session.ghost[1].row > rowOfActive(loop)
  /\ checkCollision(loop.internal.session.board, activeShape(loop),
                    Pt(loop.internal.session.ghost[1].row + 1,
                       loop.internal.session.ghost[1].col)).overlaps
  /\ hardDrop(loop).internal.session.board # loop.internal.session.board
  /\ landsOnGhost(loop)

(***************************************************************************)
(* The lock under lock-delay resets.                                       *)
(***************************************************************************)
\* the pieces drawn so far: every lock draws one
drawnSoFar(L) == Len(L.internal.session.rng.history)

\* the active piece is the one in play after n draws
inPlay(n) == accepting(loop) /\ drawnSoFar(loop) = n

\* that piece has been locked, or the game has ended
lockedOrOver(n) ==
  \/ drawnSoFar(loop) > n
  \/ loop.internal.session.phase = "gameOver"

\* ticks keep arriving: the parity of the ticks made changes for ever
ticksKeepArriving ==
  /\ []<>(call.frames = 0)
  /\ []<>(call.frames = 1)

\* C38: while ticks of positive elapsed time keep arriving, the active piece
\* is eventually locked or the game ends, whatever moves, rotations and soft
\* drops are interleaved.
C38_EventuallyLocked ==
  ticksKeepArriving =>
    \A n \in 0..(LiveMaxDraws - 1) : inPlay(n) ~> lockedOrOver(n)

(***************************************************************************)
(* The active piece and the phase.                                         *)
(***************************************************************************)
\* C39: on a board at least 4 wide and 2 high, after every operation the
\* active piece is non-null exactly when the phase is playing or paused, and
\* active and ghost are null when the phase is ready or gameOver.
C39_ActiveIffInPlay ==
  (loop.opts.width >= 4 /\ loop.opts.height >= 2)
    => /\ loop.internal.session.active # <<>>
            <=> loop.internal.session.phase \in {"playing", "paused"}
       /\ loop.internal.session.phase \in {"ready", "gameOver"}
            => /\ loop.internal.session.active = <<>>
               /\ loop.internal.session.ghost = <<>>
\* a game ended by a lock whose next piece could not spawn: the board holds
\* locked cells and free cells, and no piece is active
C39_Witness ==
  /\ loop.opts.width >= 4
  /\ loop.internal.session.phase = "gameOver"
  /\ ~loop.internal.running
  /\ loop.internal.session.active = <<>>
  /\ \E r \in 1..Len(loop.internal.session.board) :
       /\ rowSome(loop.internal.session.board[r])
       /\ ~rowFull(loop.internal.session.board[r])

(***************************************************************************)
(* The cells of the board at a lock.                                       *)
(***************************************************************************)
occupiedCount(board) ==
  Cardinality({rc \in (1..Len(board)) \X (1..boardWidthOf(board)) :
                 board[rc[1]][rc[2]].occupied})

\* the active piece where a lock puts it: on its ghost
pieceAtGhost(L) ==
  [L.internal.session.active[1] EXCEPT
     !.position = L.internal.session.ghost[1]]

\* row r of the board once the cells of the piece are set in it
rowWithPiece(board, piece, r) ==
  [c \in 1..Len(board[r]) |->
     IF <<r - 1, c - 1>> \in cellsOfPiece(piece)
     THEN [occupied |-> TRUE, type |-> piece.type]
     ELSE board[r][c]]

\* the rows the piece completes
completedRows(board, piece) ==
  {r \in 1..Len(board) : rowFull(rowWithPiece(board, piece, r))}

\* the rows that hold cells and are not completed, from the top down
survivingRows(board, piece) ==
  SelectSeq([r \in 1..Len(board) |-> rowWithPiece(board, piece, r)],
            LAMBDA row : rowSome(row) /\ ~rowFull(row))

\* the lock of piece on board, leaving the board after: the count of cells
\* is conserved and the rows that are not cleared keep their cells
cellsConserved(board, piece, after) ==
  /\ occupiedCount(after)
       = occupiedCount(board) + 4
           - boardWidthOf(board) * Cardinality(completedRows(board, piece))
  /\ SelectSeq(after, LAMBDA row : rowSome(row)) = survivingRows(board, piece)

\* C40: a lock in play conserves cells: the board after it holds the cells
\* it held before and the 4 cells of the piece, less boardWidth cells for
\* each cleared row, and the cells of the rows that are not cleared keep
\* their column and kind.
C40_LockConservesCells ==
  accepting(loop) =>
    /\ cellsConserved(loop.internal.session.board, pieceAtGhost(loop),
                      hardDrop(loop).internal.session.board)
    /\ isGrounded(loop) =>
         cellsConserved(loop.internal.session.board,
                        loop.internal.session.active[1],
                        lockActivePiece(loop, FALSE).internal.session.board)

\* a lock that completes a row while another row keeps cells
C40_Witness ==
  /\ accepting(loop)
  /\ completedRows(loop.internal.session.board, pieceAtGhost(loop)) # {}
  /\ Len(survivingRows(loop.internal.session.board, pieceAtGhost(loop))) > 0
  /\ occupiedCount(hardDrop(loop).internal.session.board) > 0
  /\ occupiedCount(hardDrop(loop).internal.session.board)
       < occupiedCount(loop.internal.session.board) + 4

=============================================================================
